---- MODULE Spec2Model ----
(***************************************************************************)
(* PTT scraper cloud function (functions/ptt-scraper/main.py): the         *)
(* due-check / execute / record pipeline of the scheduler trigger.         *)
(*                                                                         *)
(* Time is counted in minutes since an epoch that falls on a midnight.     *)
(* Strings whose content is never inspected are kept by their length;      *)
(* titles and keywords, which are matched, are sequences of characters.    *)
(* A Python exception is a value of the form [raised |-> TRUE, ...].       *)
(***************************************************************************)
EXTENDS Integers, Sequences, FiniteSets, TLC

VARIABLES
    now,         \* the wall clock (datetime.utcnow / SERVER_TIMESTAMP), minutes
    repo,        \* Firestore collection 'configurations': id -> document
    executions,  \* Firestore collection 'executions', in append order
    runs,        \* number of invocations of main started so far
    inv,         \* per invocation slot: the frame of main and of the job it runs
    env,         \* what the surroundings may do in this behaviour (fixed by Init)
    probe        \* a function under evaluation on its own: input and result

vars == <<now, repo, executions, runs, inv, env, probe>>

----------------------------------------------------------------------------
(* Bounds of the model *)

NumCfg == 2            \* documents in the 'configurations' collection
NumInv == 2            \* invocation slots

Cfgs == 1..NumCfg
Invs == 1..NumInv

----------------------------------------------------------------------------
(* Program constants *)

MAX_RETRIES == 3
BASE_DELAY == 1
MAX_DELAY == 10
TELEGRAM_MESSAGE_MAX_LENGTH == 4096

MinutesPerHour == 60
MinutesPerDay == 1440
DefaultHour == 9
DefaultMinute == 0
DefaultInterval == 60
DefaultPostCount == 20
TzOffset == 0          \* local zone of datetime.fromtimestamp, minutes east of UTC

----------------------------------------------------------------------------
(* Small helpers *)

Min(a, b) == IF a <= b THEN a ELSE b

RECURSIVE Pow2(_)
Pow2(n) == IF n = 0 THEN 1 ELSE 2 * Pow2(n - 1)

RECURSIVE SumSeq(_)
SumSeq(s) == IF s = <<>> THEN 0 ELSE Head(s) + SumSeq(Tail(s))

RECURSIVE SelectSeqIdx(_, _)
\* the indices i of s, ascending, with Test[i]
SelectSeqIdx(n, Test) ==
    IF n = 0 THEN <<>>
    ELSE IF Test[n] THEN Append(SelectSeqIdx(n - 1, Test), n)
         ELSE SelectSeqIdx(n - 1, Test)

\* datetime.date() and the time of day of a minute count
DateOf(t) == t \div MinutesPerDay

----------------------------------------------------------------------------
(* Values of the configuration documents                                   *)
(*                                                                         *)
(* schedule:     [k |-> "absent"]   the key is missing (config.get -> {})  *)
(*               [k |-> "nondict"]  a value with no .get (None, a string)  *)
(*               [k |-> "dict", type, time, interval]                      *)
(* time:         [k |-> "absent"]   the key is missing ('09:00')           *)
(*               [k |-> "nonstr"]   a value with no .split                 *)
(*               [k |-> "str", fields] the ':'-separated fields; a field   *)
(*                                  is [num |-> TRUE, v |-> n] when int()  *)
(*                                  accepts it, [num |-> FALSE, v |-> 0]   *)
(*                                  otherwise                               *)
(* interval:     [k |-> "absent"], [k |-> "int", v], [k |-> "bad"]         *)
(* lastExecuted: [k |-> "none"]     None, missing, or another falsy value  *)
(*               [k |-> "ts", t]    Firestore timestamp                    *)
(*               [k |-> "iso", t]   ISO string without a zone              *)
(*               [k |-> "isoz", t]  ISO string with 'Z' or an offset       *)
(*               [k |-> "badstr"]   a string fromisoformat rejects         *)
(*               [k |-> "other"]    any other truthy value                 *)
(***************************************************************************)

NoTime == [k |-> "absent", fields |-> <<>>]
NonStrTime == [k |-> "nonstr", fields |-> <<>>]
NumField(n) == [num |-> TRUE, v |-> n]
BadField == [num |-> FALSE, v |-> 0]
StrTime(fs) == [k |-> "str", fields |-> fs]
HM(h, m) == StrTime(<<NumField(h), NumField(m)>>)

NoInterval == [k |-> "absent", v |-> 0]
BadInterval == [k |-> "bad", v |-> 0]
IntInterval(m) == [k |-> "int", v |-> m]

NoSchedule == [k |-> "absent", type |-> "None", time |-> NoTime, interval |-> NoInterval]
NonDictSchedule == [k |-> "nondict", type |-> "None", time |-> NoTime, interval |-> NoInterval]
Schedule(type, time, interval) ==
    [k |-> "dict", type |-> type, time |-> time, interval |-> interval]

NeverExecuted == [k |-> "none", t |-> 0]
Timestamp(t) == [k |-> "ts", t |-> t]
IsoString(t) == [k |-> "iso", t |-> t]
IsoZString(t) == [k |-> "isoz", t |-> t]
BadString == [k |-> "badstr", t |-> 0]
OtherValue == [k |-> "other", t |-> 0]

----------------------------------------------------------------------------
(* is_configuration_due                                                    *)

\* schedule.get('type'): None for a dict without the key
ScheduleType(schedule) == IF schedule.k = "dict" THEN schedule.type ELSE "None"

\* lines 112-117: hour, minute = map(int, scheduled_time.split(':')), with
\* the fallback to 09:00 on ValueError (a field int() rejects, or not
\* exactly two fields) and AttributeError (no .split)
ParseScheduledTime(time) ==
    IF time.k = "absent" THEN [hour |-> DefaultHour, minute |-> DefaultMinute]
    ELSE IF time.k = "nonstr" THEN [hour |-> DefaultHour, minute |-> DefaultMinute]
    ELSE IF \E i \in 1..Len(time.fields) : ~time.fields[i].num
         THEN [hour |-> DefaultHour, minute |-> DefaultMinute]
    ELSE IF Len(time.fields) # 2 THEN [hour |-> DefaultHour, minute |-> DefaultMinute]
    ELSE [hour |-> time.fields[1].v, minute |-> time.fields[2].v]

\* now.replace(hour=, minute=, second=0, microsecond=0): ValueError when the
\* hour or the minute is out of range
ReplaceRaises(hm) == ~(hm.hour \in 0..23 /\ hm.minute \in 0..59)
TodayScheduled(t, hm) == DateOf(t) * MinutesPerDay + hm.hour * MinutesPerHour + hm.minute

\* lines 97-100: the conversion of lastExecuted. aware: the datetime carries
\* a zone, and comparing it with the naive utcnow() raises TypeError
ConvertLastExecuted(last) ==
    IF last.k = "ts" THEN [raised |-> FALSE, dt |-> TRUE, aware |-> FALSE, t |-> last.t + TzOffset]
    ELSE IF last.k = "iso" THEN [raised |-> FALSE, dt |-> TRUE, aware |-> FALSE, t |-> last.t]
    ELSE IF last.k = "isoz" THEN [raised |-> FALSE, dt |-> TRUE, aware |-> TRUE, t |-> last.t]
    ELSE IF last.k = "badstr" THEN [raised |-> TRUE, dt |-> FALSE, aware |-> FALSE, t |-> 0]
    ELSE [raised |-> FALSE, dt |-> FALSE, aware |-> FALSE, t |-> 0]

\* what a piece of the try block does: it raises, or it returns a value
Raises == [raised |-> TRUE, value |-> FALSE]
Returns(v) == [raised |-> FALSE, value |-> v]

\* a mutant of HourlyDue: the hour since the last execution is not awaited
HourlyDue_NoWait(le, t) ==
    IF ~le.dt \/ le.aware THEN Raises
    ELSE Returns(t >= le.t)

\* lines 104-108
HourlyDue(le, t) ==
    IF ~le.dt \/ le.aware THEN Raises        \* TypeError at line 105 or 106
    ELSE Returns(t >= le.t + MinutesPerHour)

\* a mutant of DailyDue: the scheduled minute itself is not yet due
DailyDue_StrictlyAfter(schedule, le, t) ==
    LET hm == ParseScheduledTime(schedule.time) IN
    IF ReplaceRaises(hm) THEN Raises
    ELSE IF ~le.dt THEN Raises
    ELSE Returns(DateOf(le.t) < DateOf(t) /\ t > TodayScheduled(t, hm))

\* a mutant of DailyDue: the date of the last execution is not compared
DailyDue_NoDateCheck(schedule, le, t) ==
    LET hm == ParseScheduledTime(schedule.time) IN
    IF ReplaceRaises(hm) THEN Raises
    ELSE IF ~le.dt THEN Raises
    ELSE Returns(t >= TodayScheduled(t, hm))

\* a mutant of DailyDue: the time of day is not compared
DailyDue_AnyTime(schedule, le, t) ==
    LET hm == ParseScheduledTime(schedule.time) IN
    IF ReplaceRaises(hm) THEN Raises
    ELSE IF ~le.dt THEN Raises
    ELSE Returns(DateOf(le.t) < DateOf(t))

\* lines 110-129
DailyDue(schedule, le, t) ==
    LET hm == ParseScheduledTime(schedule.time) IN
    IF ReplaceRaises(hm) THEN Raises         \* ValueError at line 120
    ELSE IF ~le.dt THEN Raises               \* AttributeError at line 123
    ELSE Returns(DateOf(le.t) < DateOf(t) /\ t >= TodayScheduled(t, hm))

\* lines 131-137
CustomDue(schedule, le, t) ==
    LET interval_minutes == IF schedule.interval.k = "absent" THEN DefaultInterval
                            ELSE schedule.interval.v IN
    IF schedule.interval.k = "bad" THEN Raises   \* TypeError at line 133
    ELSE IF ~le.dt \/ le.aware THEN Raises       \* TypeError at line 133 or 134
    ELSE Returns(t >= le.t + interval_minutes)

\* lines 81-141: the body of the try block, with t the value utcnow()
\* returns at line 87
DueBody(config, t) ==
    LET schedule == config.schedule
        schedule_type == ScheduleType(schedule)
        le == ConvertLastExecuted(config.lastExecuted) IN
    IF schedule.k = "nondict" THEN Raises    \* AttributeError at line 84
    ELSE IF config.lastExecuted.k = "none" THEN Returns(TRUE)
    ELSE IF le.raised THEN Raises            \* ValueError at line 100
    ELSE IF schedule_type = "hourly" THEN HourlyDue(le, t)
    ELSE IF schedule_type = "daily" THEN DailyDue(schedule, le, t)
    ELSE IF schedule_type = "custom" THEN CustomDue(schedule, le, t)
    ELSE Returns(FALSE)

\* a mutant of is_configuration_due: the unknown-type arm answers due
is_configuration_due_ElseDue(config, t) ==
    LET body == DueBody(config, t)
        known == ScheduleType(config.schedule) \in {"hourly", "daily", "custom"} IN
    IF body.raised THEN FALSE
    ELSE IF known \/ config.lastExecuted.k = "none" THEN body.value
    ELSE TRUE

\* lines 78-145: the try block and its except clause (lines 143-145)
is_configuration_due(config, t) ==
    LET body == DueBody(config, t) IN
    IF body.raised THEN FALSE ELSE body.value

----------------------------------------------------------------------------
(* Strings *)

\* str.lower on the characters the model uses
LowerChar(c) ==
    CASE c = "A" -> "a" [] c = "B" -> "b" [] c = "D" -> "d" [] c = "J" -> "j"
      [] c = "O" -> "o" [] c = "S" -> "s" [] OTHER -> c
Lower(s) == [i \in 1..Len(s) |-> LowerChar(s[i])]

\* keyword in title: substring search
Contains(sub, s) ==
    \E i \in 0..(Len(s) - Len(sub)) : SubSeq(s, i + 1, i + Len(sub)) = sub

\* len(str(n)) for n >= 0
RECURSIVE Digits(_)
Digits(n) == IF n < 10 THEN 1 ELSE 1 + Digits(n \div 10)

----------------------------------------------------------------------------
(* scrape_ptt_articles                                                     *)
(*                                                                         *)
(* The board answers a listing request with                                *)
(*   [kind |-> "listing", entries] a page with its div.r-ent entries,      *)
(*   [kind |-> "gate", entries |-> <<>>] the over-18 page (no r-ent), or    *)
(*   [kind |-> "error", entries |-> <<>>] a transport failure (the call     *)
(*                                       raises).                           *)
(* An entry is [kind, title, pad, author, date, href]:                     *)
(*   kind "ok"       div.title with an <a href>                            *)
(*   kind "noanchor" div.title without <a> (a deleted post)                *)
(*   kind "notitle"  no div.title at all                                   *)
(*   kind "nohref"   an <a> without href                                   *)
(*   title  the characters that are matched, followed by pad more          *)
(*          characters that occur in no keyword                            *)
(*   author, date  the length of the element's text, -1 when the element   *)
(*          is missing; href  the length of the link target                *)
(***************************************************************************)

PttPrefixLen == 18     \* len("https://www.ptt.cc")
UnknownLen == 7        \* len('Unknown')

GatePage == [kind |-> "gate", entries |-> <<>>]
ErrorPage == [kind |-> "error", entries |-> <<>>]
Listing(es) == [kind |-> "listing", entries |-> es]

\* a mutant of KeywordMatch: the comparison keeps the case
KeywordMatch_CaseSensitive(title, keywords) ==
    IF keywords = <<>> THEN TRUE
    ELSE \E n \in 1..Len(keywords) : Contains(keywords[n], title)

\* lines 248-251
KeywordMatch(title, keywords) ==
    IF keywords = <<>> THEN TRUE
    ELSE \E n \in 1..Len(keywords) : Contains(Lower(keywords[n]), Lower(title))

\* lines 238-259: the article of a well-formed entry
ArticleOf(entry) ==
    [title |-> entry.title, pad |-> entry.pad,
     author |-> IF entry.author < 0 THEN UnknownLen ELSE entry.author,
     date |-> IF entry.date < 0 THEN UnknownLen ELSE entry.date,
     link |-> PttPrefixLen + entry.href]

\* a mutant of ScanEntries: the loop runs over every entry of the page
RECURSIVE ScanEntries_NoBudget(_, _, _, _, _)
ScanEntries_NoBudget(entries, n, post_count, keywords, articles) ==
    IF n > Len(entries) THEN [raised |-> FALSE, articles |-> articles]
    ELSE LET entry == entries[n] IN
         IF entry.kind = "notitle" THEN [raised |-> TRUE, articles |-> <<>>]
         ELSE IF entry.kind = "noanchor" THEN
              ScanEntries_NoBudget(entries, n + 1, post_count, keywords, articles)
         ELSE IF entry.kind = "nohref" THEN [raised |-> TRUE, articles |-> <<>>]
         ELSE IF ~KeywordMatch(entry.title, keywords) THEN
              ScanEntries_NoBudget(entries, n + 1, post_count, keywords, articles)
         ELSE LET next == Append(articles, ArticleOf(entry)) IN
              IF Len(next) >= post_count THEN [raised |-> FALSE, articles |-> next]
              ELSE ScanEntries_NoBudget(entries, n + 1, post_count, keywords, next)

\* lines 233-262: the loop over article_entries[:post_count * 2], from entry n on
RECURSIVE ScanEntries(_, _, _, _, _)
ScanEntries(entries, n, post_count, keywords, articles) ==
    IF n > Min(Len(entries), post_count * 2) THEN [raised |-> FALSE, articles |-> articles]
    ELSE LET entry == entries[n] IN
         IF entry.kind = "notitle" THEN [raised |-> TRUE, articles |-> <<>>]   \* None.find
         ELSE IF entry.kind = "noanchor" THEN
              ScanEntries(entries, n + 1, post_count, keywords, articles)
         ELSE IF entry.kind = "nohref" THEN [raised |-> TRUE, articles |-> <<>>] \* KeyError
         ELSE IF ~KeywordMatch(entry.title, keywords) THEN
              ScanEntries(entries, n + 1, post_count, keywords, articles)
         ELSE LET next == Append(articles, ArticleOf(entry)) IN
              IF Len(next) >= post_count THEN [raised |-> FALSE, articles |-> next]
              ELSE ScanEntries(entries, n + 1, post_count, keywords, next)

\* lines 206-269. web.first answers the first GET, web.consent tells whether
\* the POST of the consent form goes through, web.second answers the GET
\* after it. raised: PTTScrapingError
scrape_ptt_articles(post_count, keywords, web) ==
    IF web.first.kind = "error" THEN [raised |-> TRUE, articles |-> <<>>]
    ELSE IF web.first.kind = "gate" THEN
        IF ~web.consent THEN [raised |-> TRUE, articles |-> <<>>]
        ELSE IF web.second.kind = "error" THEN [raised |-> TRUE, articles |-> <<>>]
        ELSE ScanEntries(web.second.entries, 1, post_count, keywords, <<>>)
    ELSE ScanEntries(web.first.entries, 1, post_count, keywords, <<>>)

----------------------------------------------------------------------------
(* format_articles_for_telegram                                            *)
(*                                                                         *)
(* A message is [head, entries, len]: head "info" (the no-article text),   *)
(* "first" or "cont"; entries the 1-based article numbers it lists; len    *)
(* its length in characters.                                               *)
(***************************************************************************)

InfoFixedLen == 45     \* line 275 without the board name
FirstFixedLen == 36    \* line 278 without the board name and the count
ContFixedLen == 35     \* line 289 without the board name
EntryFixedLen == 34    \* lines 281-283 without the index and the four fields
TrailingNewlines == 2  \* what strip() removes from a header or an entry

TitleLen(article) == Len(article.title) + article.pad

\* lines 281-283: len(article_text)
ArticleTextLen(i, article) ==
    Digits(i) + EntryFixedLen + TitleLen(article) + article.author + article.date + article.link

\* lines 288, 294: current_message.strip(), never empty since a header opens it
Stripped(cur) == [head |-> cur.head, entries |-> cur.entries, len |-> cur.len - TrailingNewlines]

\* a mutant of ChunkFrom: the article that overflows the block is not carried
\* over to the block that follows
RECURSIVE ChunkFrom_DropOverflow(_, _, _, _, _)
ChunkFrom_DropOverflow(articles, board_len, i, messages, cur) ==
    IF i > Len(articles) THEN Append(messages, Stripped(cur))
    ELSE LET text == ArticleTextLen(i, articles[i]) IN
         IF cur.len + text > TELEGRAM_MESSAGE_MAX_LENGTH
         THEN ChunkFrom_DropOverflow(articles, board_len, i + 1,
                                     Append(messages, Stripped(cur)),
                                     [head |-> "cont", entries |-> <<>>,
                                      len |-> ContFixedLen + board_len])
         ELSE ChunkFrom_DropOverflow(articles, board_len, i + 1, messages,
                                     [head |-> cur.head, entries |-> Append(cur.entries, i),
                                      len |-> cur.len + text])

\* lines 280-291: the loop from article i on, cur the current_message
RECURSIVE ChunkFrom(_, _, _, _, _)
ChunkFrom(articles, board_len, i, messages, cur) ==
    IF i > Len(articles) THEN Append(messages, Stripped(cur))     \* lines 293-294
    ELSE LET text == ArticleTextLen(i, articles[i]) IN
         IF cur.len + text > TELEGRAM_MESSAGE_MAX_LENGTH
         THEN ChunkFrom(articles, board_len, i + 1, Append(messages, Stripped(cur)),
                        [head |-> "cont", entries |-> <<i>>,
                         len |-> ContFixedLen + board_len + text])
         ELSE ChunkFrom(articles, board_len, i + 1, messages,
                        [head |-> cur.head, entries |-> Append(cur.entries, i),
                         len |-> cur.len + text])

\* a mutant of format_articles_for_telegram: no message for an empty list
format_articles_for_telegram_NoInfo(articles, board_len) ==
    IF articles = <<>>
    THEN <<>>
    ELSE ChunkFrom(articles, board_len, 1, <<>>,
                   [head |-> "first", entries |-> <<>>,
                    len |-> FirstFixedLen + board_len + Digits(Len(articles))])

\* lines 272-296
format_articles_for_telegram(articles, board_len) ==
    IF articles = <<>>
    THEN << [head |-> "info", entries |-> <<>>, len |-> InfoFixedLen + board_len] >>
    ELSE ChunkFrom(articles, board_len, 1, <<>>,
                   [head |-> "first", entries |-> <<>>,
                    len |-> FirstFixedLen + board_len + Digits(Len(articles))])

----------------------------------------------------------------------------
(* send_telegram_messages: one pass of the while loop of lines 303-338     *)
(*                                                                         *)
(* outcome "ok"        requests.post returns and the body has ok = true    *)
(*         "transport" requests.post raises a RequestException (no         *)
(*                     connection, a timeout)                              *)
(*         "status"    the answer has an HTTP error status (the way the    *)
(*                     Bot API answers a request it refuses, with ok =     *)
(*                     false in the body): raise_for_status raises         *)
(*                     HTTPError, a RequestException, at line 314          *)
(*         "rejected"  a success status and a body with ok = false:        *)
(*                     TelegramBotError, re-raised by the except of 337    *)
(*         "other"     any other exception raised inside the try, caught   *)
(*                     by the except of line 337                           *)
(***************************************************************************)

\* the outcomes the except clause of line 327 catches
RequestExceptions == {"transport", "status"}

\* a mutant of BackoffDelay: the exponent is the number of retries made
\* before the failed attempt
BackoffDelay_FromBase(retry_count) == Min(BASE_DELAY * Pow2(retry_count - 1), MAX_DELAY)

\* line 333
BackoffDelay(retry_count) == Min(BASE_DELAY * Pow2(retry_count), MAX_DELAY)

\* a mutant of SendAttempt: a message that used up its retries is given up
\* and the loop goes on with the next one
SendAttempt_SkipFailed(n_messages, i, retry_count, outcome) ==
    IF outcome = "ok" THEN
        [i |-> i + 1, retry_count |-> 0,
         sleep |-> IF i < n_messages THEN 1 ELSE 0,
         sleep_kind |-> "pace",
         returned |-> i = n_messages, raised |-> FALSE]
    ELSE IF outcome \in RequestExceptions THEN
        IF retry_count + 1 >= MAX_RETRIES
        THEN [i |-> i + 1, retry_count |-> 0, sleep |-> 0, sleep_kind |-> "backoff",
              returned |-> i = n_messages, raised |-> FALSE]
        ELSE [i |-> i, retry_count |-> retry_count + 1,
              sleep |-> BackoffDelay(retry_count + 1), sleep_kind |-> "backoff",
              returned |-> FALSE, raised |-> FALSE]
    ELSE [i |-> i, retry_count |-> retry_count, sleep |-> 0, sleep_kind |-> "backoff",
          returned |-> FALSE, raised |-> TRUE]

\* a mutant of SendAttempt: the retry ceiling is tested with > instead of >=
SendAttempt_ExtraRetry(n_messages, i, retry_count, outcome) ==
    IF outcome = "ok" THEN
        [i |-> i + 1, retry_count |-> 0,
         sleep |-> IF i < n_messages THEN 1 ELSE 0,
         sleep_kind |-> "pace",
         returned |-> i = n_messages, raised |-> FALSE]
    ELSE IF outcome \in RequestExceptions THEN
        IF retry_count + 1 > MAX_RETRIES
        THEN [i |-> i, retry_count |-> retry_count + 1, sleep |-> 0, sleep_kind |-> "backoff",
              returned |-> FALSE, raised |-> TRUE]
        ELSE [i |-> i, retry_count |-> retry_count + 1,
              sleep |-> BackoffDelay(retry_count + 1), sleep_kind |-> "backoff",
              returned |-> FALSE, raised |-> FALSE]
    ELSE [i |-> i, retry_count |-> retry_count, sleep |-> 0, sleep_kind |-> "backoff",
          returned |-> FALSE, raised |-> TRUE]

\* a mutant of SendAttempt: the pacing sleep is made after every message,
\* the last one included
SendAttempt_PaceAfterLast(n_messages, i, retry_count, outcome) ==
    IF outcome = "ok" THEN
        [i |-> i + 1, retry_count |-> 0,
         sleep |-> 1,
         sleep_kind |-> "pace",
         returned |-> i = n_messages, raised |-> FALSE]
    ELSE IF outcome \in RequestExceptions THEN
        IF retry_count + 1 >= MAX_RETRIES
        THEN [i |-> i, retry_count |-> retry_count + 1, sleep |-> 0, sleep_kind |-> "backoff",
              returned |-> FALSE, raised |-> TRUE]
        ELSE [i |-> i, retry_count |-> retry_count + 1,
              sleep |-> BackoffDelay(retry_count + 1), sleep_kind |-> "backoff",
              returned |-> FALSE, raised |-> FALSE]
    ELSE [i |-> i, retry_count |-> retry_count, sleep |-> 0, sleep_kind |-> "backoff",
          returned |-> FALSE, raised |-> TRUE]

\* a mutant of SendAttempt: when the retries are used up the function
\* returns instead of raising
SendAttempt_ReturnOnExhaust(n_messages, i, retry_count, outcome) ==
    IF outcome = "ok" THEN
        [i |-> i + 1, retry_count |-> 0,
         sleep |-> IF i < n_messages THEN 1 ELSE 0,
         sleep_kind |-> "pace",
         returned |-> i = n_messages, raised |-> FALSE]
    ELSE IF outcome \in RequestExceptions THEN
        IF retry_count + 1 >= MAX_RETRIES
        THEN [i |-> i, retry_count |-> retry_count + 1, sleep |-> 0, sleep_kind |-> "backoff",
              returned |-> TRUE, raised |-> FALSE]
        ELSE [i |-> i, retry_count |-> retry_count + 1,
              sleep |-> BackoffDelay(retry_count + 1), sleep_kind |-> "backoff",
              returned |-> FALSE, raised |-> FALSE]
    ELSE [i |-> i, retry_count |-> retry_count, sleep |-> 0, sleep_kind |-> "backoff",
          returned |-> FALSE, raised |-> TRUE]

\* what one attempt of messages[i] leaves: i and retry_count for the next
\* pass, the sleep it makes (0: none), and whether the function has returned
\* or raised
SendAttempt(n_messages, i, retry_count, outcome) ==
    IF outcome = "ok" THEN
        [i |-> i + 1, retry_count |-> 0,
         sleep |-> IF i < n_messages THEN 1 ELSE 0,          \* lines 323-324
         sleep_kind |-> "pace",
         returned |-> i = n_messages, raised |-> FALSE]
    ELSE IF outcome \in RequestExceptions THEN                \* line 327
        IF retry_count + 1 >= MAX_RETRIES                     \* lines 329-331
        THEN [i |-> i, retry_count |-> retry_count + 1, sleep |-> 0, sleep_kind |-> "backoff",
              returned |-> FALSE, raised |-> TRUE]
        ELSE [i |-> i, retry_count |-> retry_count + 1,
              sleep |-> BackoffDelay(retry_count + 1), sleep_kind |-> "backoff",
              returned |-> FALSE, raised |-> FALSE]
    ELSE [i |-> i, retry_count |-> retry_count, sleep |-> 0, sleep_kind |-> "backoff",
          returned |-> FALSE, raised |-> TRUE]                \* lines 317-318, 337-338

----------------------------------------------------------------------------
(* Frames *)

None == "None"

NoJob ==
    [config_id |-> 0, start_time |-> 0, articles_found |-> 0, articles_sent |-> 0,
     status |-> "error", error_message |-> None, execution_duration |-> 0,
     messages |-> <<>>, i |-> 0, retry_count |-> 0]

\* keys: the keys of the dictionary main returns; a key that is absent has
\* its field at the default below
NoResponse ==
    [keys |-> {}, success |-> FALSE, error |-> None, total_articles_sent |-> 0,
     results |-> <<>>]

\* listed: line 485 has been reached (the token and the configurations are
\* there); checks: the due checks of this invocation, in order; trace: what the job
\* in progress (or, between jobs, the job that just returned) has done
IdleFrame ==
    [pc |-> "idle", run |-> 0, start_time |-> 0, listed |-> FALSE,
     configurations |-> <<>>, k |-> 0, due_configurations |-> <<>>, j |-> 0,
     execution_results |-> <<>>, job |-> NoJob, response |-> NoResponse,
     checks |-> <<>>, trace |-> <<>>]

Event(op, cfg, n, r) == [op |-> op, cfg |-> cfg, n |-> n, r |-> r]

Running(f) == f.pc \notin {"idle", "done"}

\* a mutant of FailureResponse: the outer except answers success
FailureResponse_Success(f, error) ==
    [keys |-> {"success", "error", "execution_time", "results"},
     success |-> TRUE, error |-> error, total_articles_sent |-> 0,
     results |-> f.execution_results]

\* lines 544-549: the response of the outer except, error the str(e)
FailureResponse(f, error) ==
    [keys |-> {"success", "error", "execution_time", "results"},
     success |-> FALSE, error |-> error, total_articles_sent |-> 0,
     results |-> f.execution_results]

\* a mutant of EmptyResponse: an empty collection is answered as a failure
EmptyResponse_Failure ==
    [keys |-> {"success", "message", "execution_time", "results"},
     success |-> FALSE, error |-> None, total_articles_sent |-> 0, results |-> <<>>]

\* lines 489-494
EmptyResponse ==
    [keys |-> {"success", "message", "execution_time", "results"},
     success |-> TRUE, error |-> None, total_articles_sent |-> 0, results |-> <<>>]

\* a mutant of SummaryResponse: success tells whether some job succeeded
SummaryResponse_AnySuccess(f) ==
    [keys |-> {"success", "message", "execution_time", "total_articles_sent", "results"},
     success |-> \E n \in 1..Len(f.execution_results) :
                    f.execution_results[n].status # "error",
     error |-> None,
     total_articles_sent |->
         SumSeq([n \in 1..Len(f.execution_results) |-> f.execution_results[n].articles_sent]),
     results |-> f.execution_results]

\* lines 525-535
SummaryResponse(f) ==
    [keys |-> {"success", "message", "execution_time", "total_articles_sent", "results"},
     success |-> TRUE, error |-> None,
     total_articles_sent |->
         SumSeq([n \in 1..Len(f.execution_results) |-> f.execution_results[n].articles_sent]),
     results |-> f.execution_results]

\* lines 476-483: the active documents, each with its id, in id order
ActiveConfigurations ==
    LET ids == SelectSeqIdx(NumCfg, [c \in Cfgs |-> repo[c].isActive]) IN
    [n \in 1..Len(ids) |->
        [id |-> ids[n], schedule |-> repo[ids[n]].schedule,
         lastExecuted |-> repo[ids[n]].lastExecuted,
         pttBoard |-> repo[ids[n]].pttBoard, postCount |-> repo[ids[n]].postCount,
         keywords |-> repo[ids[n]].keywords,
         telegramChatId |-> repo[ids[n]].telegramChatId]]

\* lines 440-448: the dictionary the job returns
JobResult(job) ==
    [config_id |-> job.config_id, status |-> job.status,
     articles_found |-> job.articles_found, articles_sent |-> job.articles_sent,
     execution_duration |-> job.execution_duration, error_message |-> job.error_message]

\* lines 345-353: the document create_execution_record adds
ExecutionData(job, t) ==
    [configurationId |-> job.config_id, executedAt |-> t, status |-> job.status,
     articlesFound |-> job.articles_found, articlesSent |-> job.articles_sent,
     executionDuration |-> job.execution_duration, errorMessage |-> job.error_message]


----------------------------------------------------------------------------
(* The environment *)

Day == MinutesPerDay
StartTime == 1 * Day + 8 * MinutesPerHour + 30          \* day 1, 08:30
Clock == {StartTime + 30}

Doc(active, schedule, last, board, count, keywords, chat) ==
    [isActive |-> active, schedule |-> schedule, lastExecuted |-> last,
     lastExecutionStatus |-> None, lastExecutionMessage |-> None,
     pttBoard |-> board, postCount |-> count, keywords |-> keywords,
     telegramChatId |-> chat]

BoardLen == 8          \* len('Tech_Job')
Hourly == Schedule("hourly", NoTime, NoInterval)
Daily(time) == Schedule("daily", time, NoInterval)
Custom(interval) == Schedule("custom", NoTime, interval)
Weekly == Schedule("weekly", NoTime, NoInterval)

JobKeyword == << <<"J", "o", "b">> >>

\* the documents the collection may hold when a behaviour starts
InitDocs ==
    { Doc(TRUE, Hourly, NeverExecuted, BoardLen, 2, JobKeyword, TRUE),
      Doc(TRUE, Hourly, Timestamp(StartTime - 30), BoardLen, 2, JobKeyword, TRUE),
      Doc(TRUE, Weekly, NeverExecuted, BoardLen, 2, JobKeyword, TRUE),
      Doc(TRUE, Weekly, Timestamp(StartTime - Day), BoardLen, 2, JobKeyword, TRUE),
      Doc(TRUE, Hourly, NeverExecuted, -1, 2, JobKeyword, TRUE),
      Doc(FALSE, Hourly, NeverExecuted, BoardLen, 2, JobKeyword, TRUE) }

Entry(kind, title, pad) ==
    [kind |-> kind, title |-> title, pad |-> pad, author |-> 5, date |-> 5, href |-> 40]

LongPad == 2400        \* a title that fills more than half a message

NoSecond == ErrorPage  \* the second GET is never made

\* what the board may answer to one call of scrape_ptt_articles
Webs ==
    { [first |-> ErrorPage, consent |-> TRUE, second |-> NoSecond],
      [first |-> Listing(<<>>), consent |-> TRUE, second |-> NoSecond],
      [first |-> Listing(<< Entry("ok", <<"j", "o", "b">>, 0), Entry("ok", <<"a", "d">>, 0),
                            Entry("ok", <<"J", "O", "B", "s">>, 0) >>),
       consent |-> TRUE, second |-> NoSecond],
      [first |-> Listing(<< Entry("ok", <<"j", "o", "b">>, LongPad),
                            Entry("ok", <<"j", "o", "b", "s">>, LongPad) >>),
       consent |-> TRUE, second |-> NoSecond],
      [first |-> GatePage, consent |-> TRUE,
       second |-> Listing(<< Entry("noanchor", <<>>, 0), Entry("ok", <<"j", "o", "b">>, 0) >>)] }

\* one invocation, started from any of the initial collections
PipelineEnv == [runs |-> 1, overlap |-> FALSE, webs |-> Webs, clock |-> Clock]

NoProbe == [fn |-> "none"]

----------------------------------------------------------------------------
(* main and execute_scraping_job, one action per step                      *)

SetFrame(i, f) == inv' = [inv EXCEPT ![i] = f]

\* lines 462-469: the trigger calls main. The slots are taken in order, and
\* unless the environment lets triggers overlap, one invocation has returned
\* before the next starts
Trigger(i) ==
    /\ ~Running(inv[i])
    /\ \A o \in Invs : o < i => Running(inv[o])
    /\ env.overlap \/ \A o \in Invs : ~Running(inv[o])
    /\ runs < env.runs
    /\ runs' = runs + 1
    /\ SetFrame(i, [IdleFrame EXCEPT !.pc = "token", !.run = runs + 1, !.start_time = now])
    /\ UNCHANGED <<now, repo, executions, env, probe>>

\* line 472: get_telegram_bot_token returns
GetToken(i) ==
    /\ inv[i].pc = "token"
    /\ SetFrame(i, [inv[i] EXCEPT !.pc = "list"])
    /\ UNCHANGED <<now, repo, executions, runs, env, probe>>

\* lines 73-75, 542-549: get_telegram_bot_token raises
GetTokenFails(i) ==
    /\ inv[i].pc = "token"
    /\ SetFrame(i, [inv[i] EXCEPT !.pc = "done",
                                  !.response = FailureResponse(inv[i], "Secret Manager error")])
    /\ UNCHANGED <<now, repo, executions, runs, env, probe>>

\* lines 475-494: the query for the active configurations answers
ListConfigurations(i) ==
    /\ inv[i].pc = "list"
    /\ LET configurations == ActiveConfigurations IN
       IF configurations = <<>>
       THEN SetFrame(i, [inv[i] EXCEPT !.pc = "done", !.listed = TRUE,
                                       !.response = EmptyResponse])
       ELSE SetFrame(i, [inv[i] EXCEPT !.pc = "due", !.listed = TRUE,
                                       !.configurations = configurations, !.k = 1])
    /\ UNCHANGED <<now, repo, executions, runs, env, probe>>

\* lines 475-483, 542-549: the query raises
ListConfigurationsFails(i) ==
    /\ inv[i].pc = "list"
    /\ SetFrame(i, [inv[i] EXCEPT !.pc = "done",
                                  !.response = FailureResponse(inv[i], "Firestore error")])
    /\ UNCHANGED <<now, repo, executions, runs, env, probe>>

\* a mutant of CheckDueStep: the append is outside the if
CheckDueStep_AppendAll(f, t) ==
    LET config == f.configurations[f.k]
        due == is_configuration_due(config, t)
        due_configurations == Append(f.due_configurations, config)
        last == f.k = Len(f.configurations) IN
    [f EXCEPT
        !.due_configurations = due_configurations,
        !.k = f.k + 1,
        !.j = IF last THEN 1 ELSE 0,
        !.pc = IF ~last THEN "due"
               ELSE IF due_configurations = <<>> THEN "respond" ELSE "job",
        !.checks = Append(f.checks, Event("check", config.id, t,
                                          IF due THEN "due" ELSE "skip"))]

\* a mutant of CheckDueStep: is_configuration_due has no try block, and what
\* it raises reaches the except clause of main
CheckDueStep_Propagates(f, t) ==
    LET config == f.configurations[f.k]
        body == DueBody(config, t)
        due_configurations == IF body.value THEN Append(f.due_configurations, config)
                              ELSE f.due_configurations
        last == f.k = Len(f.configurations) IN
    IF body.raised
    THEN [f EXCEPT !.pc = "done",
                   !.response = FailureResponse(f, "due check error"),
                   !.checks = Append(f.checks, Event("check", config.id, t, "raised"))]
    ELSE [f EXCEPT
            !.due_configurations = due_configurations,
            !.k = f.k + 1,
            !.j = IF last THEN 1 ELSE 0,
            !.pc = IF ~last THEN "due"
                   ELSE IF due_configurations = <<>> THEN "respond" ELSE "job",
            !.checks = Append(f.checks, Event("check", config.id, t,
                                              IF body.value THEN "due" ELSE "skip"))]

\* lines 498-505: one pass of the due-check loop, at time t; after the last
\* pass, line 508 starts the job loop
CheckDueStep(f, t) ==
    LET config == f.configurations[f.k]
        due == is_configuration_due(config, t)
        due_configurations == IF due THEN Append(f.due_configurations, config)
                              ELSE f.due_configurations
        last == f.k = Len(f.configurations) IN
    [f EXCEPT
        !.due_configurations = due_configurations,
        !.k = f.k + 1,
        !.j = IF last THEN 1 ELSE 0,
        !.pc = IF ~last THEN "due"
               ELSE IF due_configurations = <<>> THEN "respond" ELSE "job",
        !.checks = Append(f.checks, Event("check", config.id, t,
                                          IF due THEN "due" ELSE "skip"))]

CheckDue(i) ==
    /\ inv[i].pc = "due"
    /\ SetFrame(i, CheckDueStep(inv[i], now))
    /\ UNCHANGED <<now, repo, executions, runs, env, probe>>

\* a mutant of EnterFinally: the recording is not in a finally block, and a
\* job that raised returns its result without it
EnterFinally_SkipOnError(f, job) ==
    LET timed == [job EXCEPT !.execution_duration = now - job.start_time] IN
    IF job.error_message # None
    THEN [f EXCEPT !.job = timed,
                   !.execution_results = Append(f.execution_results, JobResult(timed)),
                   !.j = f.j + 1,
                   !.pc = IF f.j = Len(f.due_configurations) THEN "respond" ELSE "job"]
    ELSE [f EXCEPT !.pc = "update", !.job = timed]

\* lines 427-429: the job enters its finally block
EnterFinally(f, job) ==
    [f EXCEPT !.pc = "update",
              !.job = [job EXCEPT !.execution_duration = now - job.start_time]]

\* lines 381-397: execute_scraping_job starts for due_configurations[j];
\* a missing pttBoard or telegramChatId raises KeyError (lines 423-425)
StartJob(i) ==
    /\ inv[i].pc = "job"
    /\ LET f == inv[i]
           config == f.due_configurations[f.j]
           job == [NoJob EXCEPT !.config_id = config.id, !.start_time = now]
           started == [f EXCEPT !.trace = <<>>] IN
       IF config.pttBoard < 0 \/ ~config.telegramChatId
       THEN SetFrame(i, EnterFinally(started,
                                     [job EXCEPT !.error_message = "Unexpected error"]))
       ELSE SetFrame(i, [started EXCEPT !.pc = "fetch", !.job = job])
    /\ UNCHANGED <<now, repo, executions, runs, env, probe>>

\* a mutant of FetchStep: an empty result is formatted and sent like any other
FetchStep_SendEmpty(f, web) ==
    LET config == f.due_configurations[f.j]
        post_count == IF config.postCount < 0 THEN DefaultPostCount ELSE config.postCount
        r == scrape_ptt_articles(post_count, config.keywords, web)
        found == Len(r.articles)
        fetched == Append(f.trace, Event("fetch", config.id, found,
                                         IF r.raised THEN "raised" ELSE "ok"))
        messages == format_articles_for_telegram(r.articles, config.pttBoard) IN
    IF r.raised
    THEN [EnterFinally(f, [f.job EXCEPT !.error_message = "PTT scraping error"])
             EXCEPT !.trace = fetched]
    ELSE [f EXCEPT
             !.pc = "send",
             !.job = [f.job EXCEPT !.articles_found = found, !.messages = messages,
                                   !.i = 1, !.retry_count = 0],
             !.trace = Append(fetched, Event("deliver", config.id, Len(messages), ""))]

\* a mutant of FetchStep: the branch for an empty result returns at once,
\* and the finally block does not run for it
FetchStep_NoArticlesUnrecorded(f, web) ==
    LET config == f.due_configurations[f.j]
        post_count == IF config.postCount < 0 THEN DefaultPostCount ELSE config.postCount
        r == scrape_ptt_articles(post_count, config.keywords, web)
        found == Len(r.articles)
        fetched == Append(f.trace, Event("fetch", config.id, found,
                                         IF r.raised THEN "raised" ELSE "ok"))
        messages == format_articles_for_telegram(r.articles, config.pttBoard) IN
    IF r.raised
    THEN [EnterFinally(f, [f.job EXCEPT !.error_message = "PTT scraping error"])
             EXCEPT !.trace = fetched]
    ELSE IF found = 0
    THEN [f EXCEPT
             !.job = [f.job EXCEPT !.status = "no_articles"],
             !.execution_results =
                 Append(f.execution_results, JobResult([f.job EXCEPT !.status = "no_articles"])),
             !.j = f.j + 1,
             !.pc = IF f.j = Len(f.due_configurations) THEN "respond" ELSE "job",
             !.trace = fetched]
    ELSE [f EXCEPT
             !.pc = "send",
             !.job = [f.job EXCEPT !.articles_found = found, !.messages = messages,
                                   !.i = 1, !.retry_count = 0],
             !.trace = Append(fetched, Event("deliver", config.id, Len(messages), ""))]

\* lines 400-408, 415-417: scrape_ptt_articles answers from web, then the
\* branch on its result
FetchStep(f, web) ==
    LET config == f.due_configurations[f.j]
        post_count == IF config.postCount < 0 THEN DefaultPostCount ELSE config.postCount
        r == scrape_ptt_articles(post_count, config.keywords, web)
        found == Len(r.articles)
        fetched == Append(f.trace, Event("fetch", config.id, found,
                                         IF r.raised THEN "raised" ELSE "ok"))
        messages == format_articles_for_telegram(r.articles, config.pttBoard) IN
    IF r.raised
    THEN [EnterFinally(f, [f.job EXCEPT !.error_message = "PTT scraping error"])
             EXCEPT !.trace = fetched]
    ELSE IF found = 0
    THEN [EnterFinally(f, [f.job EXCEPT !.status = "no_articles"])
             EXCEPT !.trace = fetched]
    ELSE [f EXCEPT
             !.pc = "send",
             !.job = [f.job EXCEPT !.articles_found = found, !.messages = messages,
                                   !.i = 1, !.retry_count = 0],
             !.trace = Append(fetched, Event("deliver", config.id, Len(messages), ""))]

Fetch(i) ==
    /\ inv[i].pc = "fetch"
    /\ \E web \in env.webs : SetFrame(i, FetchStep(inv[i], web))
    /\ UNCHANGED <<now, repo, executions, runs, env, probe>>

\* a mutant of SendStep: articles_sent counts the messages, not the articles
SendStep_CountMessages(f, outcome) ==
    LET job == f.job
        a == SendAttempt(Len(job.messages), job.i, job.retry_count, outcome)
        sent == Append(f.trace, Event("send", job.config_id, job.i, outcome))
        trace == IF a.sleep > 0
                 THEN Append(sent, Event("sleep", job.config_id, a.sleep, a.sleep_kind))
                 ELSE sent
        after == [job EXCEPT !.i = a.i, !.retry_count = a.retry_count] IN
    IF a.raised
    THEN [EnterFinally(f, [after EXCEPT !.error_message = "Telegram delivery error"])
             EXCEPT !.trace = trace]
    ELSE IF a.returned
    THEN [EnterFinally(f, [after EXCEPT !.articles_sent = Len(job.messages),
                                        !.status = "success"])
             EXCEPT !.trace = trace]
    ELSE [f EXCEPT !.job = after, !.trace = trace]

\* a mutant of SendStep: a delivery that raises reports the messages that
\* were acknowledged before it
SendStep_PartialCount(f, outcome) ==
    LET job == f.job
        a == SendAttempt(Len(job.messages), job.i, job.retry_count, outcome)
        sent == Append(f.trace, Event("send", job.config_id, job.i, outcome))
        trace == IF a.sleep > 0
                 THEN Append(sent, Event("sleep", job.config_id, a.sleep, a.sleep_kind))
                 ELSE sent
        after == [job EXCEPT !.i = a.i, !.retry_count = a.retry_count] IN
    IF a.raised
    THEN [EnterFinally(f, [after EXCEPT !.error_message = "Telegram delivery error",
                                        !.articles_sent = job.i - 1])
             EXCEPT !.trace = trace]
    ELSE IF a.returned
    THEN [EnterFinally(f, [after EXCEPT !.articles_sent = job.articles_found,
                                        !.status = "success"])
             EXCEPT !.trace = trace]
    ELSE [f EXCEPT !.job = after, !.trace = trace]

\* lines 303-338, 409-413, 419-421: one attempt to send messages[i]
SendStep(f, outcome) ==
    LET job == f.job
        a == SendAttempt(Len(job.messages), job.i, job.retry_count, outcome)
        sent == Append(f.trace, Event("send", job.config_id, job.i, outcome))
        trace == IF a.sleep > 0
                 THEN Append(sent, Event("sleep", job.config_id, a.sleep, a.sleep_kind))
                 ELSE sent
        after == [job EXCEPT !.i = a.i, !.retry_count = a.retry_count] IN
    IF a.raised
    THEN [EnterFinally(f, [after EXCEPT !.error_message = "Telegram delivery error"])
             EXCEPT !.trace = trace]
    ELSE IF a.returned
    THEN [EnterFinally(f, [after EXCEPT !.articles_sent = job.articles_found,
                                        !.status = "success"])
             EXCEPT !.trace = trace]
    ELSE [f EXCEPT !.job = after, !.trace = trace]

Send(i, outcome) ==
    /\ inv[i].pc = "send"
    /\ SetFrame(i, SendStep(inv[i], outcome))
    /\ UNCHANGED <<now, repo, executions, runs, env, probe>>

SendOk(i) == Send(i, "ok")
SendTransportFails(i) == Send(i, "transport")
SendRejected(i) == Send(i, "rejected")

\* a mutant of UpdateStatus: the update is applied to every document of the
\* collection
UpdateStatus_EveryDocument(i) ==
    /\ inv[i].pc = "update"
    /\ LET f == inv[i]
           job == f.job IN
       /\ repo' = [c \in Cfgs |->
                     [repo[c] EXCEPT !.lastExecuted = Timestamp(now),
                                     !.lastExecutionStatus = job.status,
                                     !.lastExecutionMessage = job.error_message]]
       /\ SetFrame(i, [f EXCEPT !.pc = "record",
                                !.trace = Append(f.trace, Event("update", job.config_id, 0, "ok"))])
    /\ UNCHANGED <<now, executions, runs, env, probe>>

\* a mutant of UpdateStatus: the time of a failed run is not written
UpdateStatus_KeepTimeOnError(i) ==
    /\ inv[i].pc = "update"
    /\ LET f == inv[i]
           job == f.job IN
       /\ repo' = [repo EXCEPT ![job.config_id] =
                     [@ EXCEPT !.lastExecuted = IF job.status = "error" THEN @
                                                ELSE Timestamp(now),
                               !.lastExecutionStatus = job.status,
                               !.lastExecutionMessage = job.error_message]]
       /\ SetFrame(i, [f EXCEPT !.pc = "record",
                                !.trace = Append(f.trace, Event("update", job.config_id, 0, "ok"))])
    /\ UNCHANGED <<now, executions, runs, env, probe>>

\* lines 362-373, 432: update_configuration_status writes the document
UpdateStatus(i) ==
    /\ inv[i].pc = "update"
    /\ LET f == inv[i]
           job == f.job IN
       /\ repo' = [repo EXCEPT ![job.config_id] =
                     [@ EXCEPT !.lastExecuted = Timestamp(now),
                               !.lastExecutionStatus = job.status,
                               !.lastExecutionMessage = job.error_message]]
       /\ SetFrame(i, [f EXCEPT !.pc = "record",
                                !.trace = Append(f.trace, Event("update", job.config_id, 0, "ok"))])
    /\ UNCHANGED <<now, executions, runs, env, probe>>

\* lines 375-376, 432: the write raises, update_configuration_status logs it
UpdateStatusFails(i) ==
    /\ inv[i].pc = "update"
    /\ LET f == inv[i] IN
       SetFrame(i, [f EXCEPT !.pc = "record",
                             !.trace = Append(f.trace, Event("update", f.job.config_id, 0, "failed"))])
    /\ UNCHANGED <<now, repo, executions, runs, env, probe>>

\* a mutant of ReturnResult: a job that ends in error ends the job loop
ReturnResult_StopOnError(f, written) ==
    [f EXCEPT !.execution_results = Append(f.execution_results, JobResult(f.job)),
              !.j = f.j + 1,
              !.pc = IF f.j = Len(f.due_configurations) \/ f.job.status = "error"
                     THEN "respond" ELSE "job",
              !.trace = Append(f.trace, Event("append", f.job.config_id, 0, written))]

\* a mutant of ReturnResult: a failed write of the record reaches main,
\* which appends the result of lines 514-522
ReturnResult_WriteErrorResult(f, written) ==
    LET result == IF written = "failed"
                  THEN [JobResult(f.job) EXCEPT !.status = "error", !.articles_found = 0,
                                                !.articles_sent = 0,
                                                !.execution_duration = 0,
                                                !.error_message = "Firestore error"]
                  ELSE JobResult(f.job) IN
    [f EXCEPT !.execution_results = Append(f.execution_results, result),
              !.j = f.j + 1,
              !.pc = IF f.j = Len(f.due_configurations) THEN "respond" ELSE "job",
              !.trace = Append(f.trace, Event("append", f.job.config_id, 0, written))]

\* lines 440-448, 510-511: the job returns and main appends its result
ReturnResult(f, written) ==
    [f EXCEPT !.execution_results = Append(f.execution_results, JobResult(f.job)),
              !.j = f.j + 1,
              !.pc = IF f.j = Len(f.due_configurations) THEN "respond" ELSE "job",
              !.trace = Append(f.trace, Event("append", f.job.config_id, 0, written))]

\* lines 341-356, 435-438: create_execution_record adds the document
CreateRecord(i) ==
    /\ inv[i].pc = "record"
    /\ executions' = Append(executions, ExecutionData(inv[i].job, now))
    /\ SetFrame(i, ReturnResult(inv[i], "ok"))
    /\ UNCHANGED <<now, repo, runs, env, probe>>

\* lines 358-359, 435-438: the write raises, create_execution_record logs it
CreateRecordFails(i) ==
    /\ inv[i].pc = "record"
    /\ SetFrame(i, ReturnResult(inv[i], "failed"))
    /\ UNCHANGED <<now, repo, executions, runs, env, probe>>

\* lines 524-540: main returns the summary
Respond(i) ==
    /\ inv[i].pc = "respond"
    /\ SetFrame(i, [inv[i] EXCEPT !.pc = "done", !.response = SummaryResponse(inv[i]),
                                  !.trace = <<>>])
    /\ UNCHANGED <<now, repo, executions, runs, env, probe>>

\* time passes: between invocations, and while a job runs (seen by the
\* timestamps the job writes when it records)
Tick ==
    /\ \A i \in Invs : inv[i].pc \in {"idle", "done", "update"}
    /\ \E t \in env.clock : t > now /\ now' = t
    /\ UNCHANGED <<repo, executions, runs, inv, env, probe>>

Init ==
    /\ now = StartTime
    /\ repo \in [Cfgs -> InitDocs]
    /\ executions = <<>>
    /\ runs = 0
    /\ inv = [i \in Invs |-> IdleFrame]
    /\ env = PipelineEnv
    /\ probe = NoProbe

Next ==
    \/ Tick
    \/ \E i \in Invs :
        \/ Trigger(i)
        \/ GetToken(i)
        \/ GetTokenFails(i)
        \/ ListConfigurations(i)
        \/ ListConfigurationsFails(i)
        \/ CheckDue(i)
        \/ StartJob(i)
        \/ Fetch(i)
        \/ SendOk(i)
        \/ SendTransportFails(i)
        \/ SendRejected(i)
        \/ UpdateStatus(i)
        \/ UpdateStatusFails(i)
        \/ CreateRecord(i)
        \/ CreateRecordFails(i)
        \/ Respond(i)

Spec == Init /\ [][Next]_vars

----------------------------------------------------------------------------
(* is_configuration_due on its own: Init draws a configuration and a time, *)
(* EvalDue applies the function                                            *)

DueSchedules ==
    { Hourly, Weekly, NoSchedule, NonDictSchedule,
      Schedule("None", NoTime, NoInterval),
      Daily(NoTime), Daily(HM(9, 0)), Daily(HM(8, 30)), Daily(HM(23, 50)),
      Daily(HM(25, 0)), Daily(HM(9, 60)), Daily(HM(-1, 0)),
      Daily(NonStrTime), Daily(StrTime(<<NumField(9)>>)),
      Daily(StrTime(<<NumField(9), BadField>>)),
      Daily(StrTime(<<NumField(9), NumField(0), NumField(0)>>)),
      Custom(NoInterval), Custom(IntInterval(30)), Custom(BadInterval) }

DueLasts ==
    { NeverExecuted, BadString, OtherValue,
      Timestamp(StartTime - Day), Timestamp(Day - 1), Timestamp(Day),
      Timestamp(StartTime - 61), Timestamp(StartTime - 60), Timestamp(StartTime - 59),
      Timestamp(StartTime - 30),
      IsoString(StartTime - 60), IsoZString(StartTime - 60), IsoZString(StartTime - Day) }

DueTimes == {StartTime - 1, StartTime, StartTime + 29, StartTime + 30, StartTime + Day}

EvalDue ==
    /\ probe.fn = "is_configuration_due"
    /\ ~probe.done
    /\ probe' = [probe EXCEPT !.done = TRUE,
                              !.result = is_configuration_due(probe.config, probe.t)]
    /\ UNCHANGED <<now, repo, executions, runs, inv, env>>

InitDue ==
    /\ now = StartTime
    /\ repo = [c \in Cfgs |-> Doc(FALSE, Hourly, NeverExecuted, BoardLen, 2, <<>>, TRUE)]
    /\ executions = <<>>
    /\ runs = 0
    /\ inv = [i \in Invs |-> IdleFrame]
    /\ env = [runs |-> 0, overlap |-> FALSE, webs |-> {}, clock |-> {}]
    /\ probe \in { [fn |-> "is_configuration_due",
                    config |-> [id |-> 1, schedule |-> s, lastExecuted |-> l],
                    t |-> t, done |-> FALSE, result |-> FALSE] :
                   s \in DueSchedules, l \in DueLasts, t \in DueTimes }

NextDue == EvalDue

SpecDue == InitDue /\ [][NextDue]_vars

----------------------------------------------------------------------------
(* Daily configurations over several invocations, one after the other, on  *)
(* two days                                                                *)

\* day 1 at 09:00 and at 10:00, day 2 at 09:00
DailyClock == {StartTime + 30, StartTime + 90, StartTime + Day + 30}

DailyDocs ==
    { Doc(TRUE, Daily(HM(9, 0)), Timestamp(StartTime - Day), BoardLen, 2, JobKeyword, TRUE),
      Doc(TRUE, Daily(HM(9, 0)), NeverExecuted, BoardLen, 2, JobKeyword, TRUE),
      Doc(TRUE, Daily(HM(25, 0)), Timestamp(StartTime - Day), BoardLen, 2, JobKeyword, TRUE) }

DailyWebs ==
    { [first |-> Listing(<< Entry("ok", <<"j", "o", "b">>, 0) >>),
       consent |-> TRUE, second |-> NoSecond] }

MaxDailyRuns == 2

DailyEnv == [runs |-> MaxDailyRuns, overlap |-> FALSE, webs |-> DailyWebs, clock |-> DailyClock]

InitDaily ==
    /\ now = StartTime
    /\ repo \in [Cfgs -> DailyDocs]
    /\ executions = <<>>
    /\ runs = 0
    /\ inv = [i \in Invs |-> IdleFrame]
    /\ env = DailyEnv
    /\ probe = NoProbe

SpecDaily == InitDaily /\ [][Next]_vars

----------------------------------------------------------------------------
(* Two invocations that overlap, on one never-executed configuration       *)

\* the first configuration is active, the others are not
OverlapRepo ==
    [c \in Cfgs |-> Doc(c = 1, Hourly, NeverExecuted, BoardLen, 2, JobKeyword, TRUE)]

OverlapEnv == [runs |-> 2, overlap |-> TRUE, webs |-> DailyWebs, clock |-> Clock]

InitOverlap ==
    /\ now = StartTime
    /\ repo = OverlapRepo
    /\ executions = <<>>
    /\ runs = 0
    /\ inv = [i \in Invs |-> IdleFrame]
    /\ env = OverlapEnv
    /\ probe = NoProbe

SpecOverlap == InitOverlap /\ [][Next]_vars

----------------------------------------------------------------------------
(* format_articles_for_telegram on its own: Init draws an article list and *)
(* a board name, EvalChunk applies the function                            *)

MaxArticles == 3
EdgePad == 3946        \* a title whose entry does not fit after the first header
HugePad == 3950        \* a title whose entry fits in no message

ChunkPads == {0, LongPad, EdgePad, HugePad}
ChunkBoards == {BoardLen, 2 * BoardLen}

\* an article as scrape_ptt_articles returns it, its title pad characters long
ChunkArticle(pad) == ArticleOf(Entry("ok", <<"j", "o", "b">>, pad))

ChunkInputs ==
    UNION { { [n \in 1..len |-> ChunkArticle(pads[n])] : pads \in [1..len -> ChunkPads] } :
            len \in 0..MaxArticles }

EvalChunk ==
    /\ probe.fn = "format_articles_for_telegram"
    /\ ~probe.done
    /\ probe' = [probe EXCEPT
                    !.done = TRUE,
                    !.result = format_articles_for_telegram(probe.articles, probe.board_len)]
    /\ UNCHANGED <<now, repo, executions, runs, inv, env>>

InitChunk ==
    /\ now = StartTime
    /\ repo = [c \in Cfgs |-> Doc(FALSE, Hourly, NeverExecuted, BoardLen, 2, <<>>, TRUE)]
    /\ executions = <<>>
    /\ runs = 0
    /\ inv = [i \in Invs |-> IdleFrame]
    /\ env = [runs |-> 0, overlap |-> FALSE, webs |-> {}, clock |-> {}]
    /\ probe \in { [fn |-> "format_articles_for_telegram", articles |-> a, board_len |-> b,
                    done |-> FALSE, result |-> <<>>] :
                   a \in ChunkInputs, b \in ChunkBoards }

NextChunk == EvalChunk

SpecChunk == InitChunk /\ [][NextChunk]_vars

----------------------------------------------------------------------------
(* send_telegram_messages on its own: Init draws the number of messages,   *)
(* each action is one attempt with one outcome                             *)

MaxMessages == 3

\* lines 301-338: one pass of the while loop on the probe; the trace keeps
\* each attempt and each sleep
DeliverStep(p, outcome) ==
    LET a == SendAttempt(p.n_messages, p.i, p.retry_count, outcome)
        sent == Append(p.trace, Event("send", 0, p.i, outcome))
        trace == IF a.sleep > 0
                 THEN Append(sent, Event("sleep", 0, a.sleep, a.sleep_kind))
                 ELSE sent IN
    [p EXCEPT !.i = a.i, !.retry_count = a.retry_count, !.trace = trace,
              !.pc = IF a.raised THEN "raised"
                     ELSE IF a.returned THEN "returned" ELSE "loop"]

Deliver(outcome) ==
    /\ probe.fn = "send_telegram_messages"
    /\ probe.pc = "loop"
    /\ probe' = DeliverStep(probe, outcome)
    /\ UNCHANGED <<now, repo, executions, runs, inv, env>>

DeliverOk == Deliver("ok")
DeliverTransportFails == Deliver("transport")
DeliverStatusFails == Deliver("status")
DeliverRejected == Deliver("rejected")
DeliverOtherFails == Deliver("other")

InitSend ==
    /\ now = StartTime
    /\ repo = [c \in Cfgs |-> Doc(FALSE, Hourly, NeverExecuted, BoardLen, 2, <<>>, TRUE)]
    /\ executions = <<>>
    /\ runs = 0
    /\ inv = [i \in Invs |-> IdleFrame]
    /\ env = [runs |-> 0, overlap |-> FALSE, webs |-> {}, clock |-> {}]
    /\ probe \in { [fn |-> "send_telegram_messages", n_messages |-> n, i |-> 1,
                    retry_count |-> 0, pc |-> "loop", trace |-> <<>>] :
                   n \in 1..MaxMessages }

NextSend ==
    \/ DeliverOk
    \/ DeliverTransportFails
    \/ DeliverStatusFails
    \/ DeliverRejected
    \/ DeliverOtherFails

SpecSend == InitSend /\ [][NextSend]_vars

\* every request ends, by its answer or by the timeout of line 313, and
\* every sleep ends: a pass of the loop that can be made is made
SpecSendFair == SpecSend /\ WF_vars(NextSend)

----------------------------------------------------------------------------
(* scrape_ptt_articles on its own: Init draws the post count, the keywords *)
(* and what the board answers, EvalFetch applies the function              *)

MaxEntries == 4
MaxPostCount == 2

\* the entries a listing may hold: two titles that match 'Job' (one only
\* when the case is ignored), one that does not, and the malformed ones
FetchEntries ==
    { Entry("ok", <<"j", "o", "b">>, 0), Entry("ok", <<"J", "O", "B", "s">>, 0),
      Entry("ok", <<"a", "d">>, 0), Entry("noanchor", <<>>, 0),
      Entry("notitle", <<>>, 0), Entry("nohref", <<"j", "o", "b">>, 0) }

FetchListings ==
    UNION { [1..len -> FetchEntries] : len \in 0..MaxEntries }

\* the answers of the board: a listing at once, a failed request, or the
\* over-18 page followed by whatever the consent step and the second
\* request give
FetchWebs ==
    { [first |-> Listing(es), consent |-> TRUE, second |-> NoSecond] : es \in FetchListings }
    \cup { [first |-> ErrorPage, consent |-> TRUE, second |-> NoSecond] }
    \cup { [first |-> GatePage, consent |-> c, second |-> page] :
             c \in BOOLEAN,
             page \in { ErrorPage, GatePage, Listing(<< Entry("ok", <<"j", "o", "b">>, 0) >>) } }

EvalFetch ==
    /\ probe.fn = "scrape_ptt_articles"
    /\ ~probe.done
    /\ probe' = [probe EXCEPT
                    !.done = TRUE,
                    !.result = scrape_ptt_articles(probe.post_count, probe.keywords, probe.web)]
    /\ UNCHANGED <<now, repo, executions, runs, inv, env>>

InitFetch ==
    /\ now = StartTime
    /\ repo = [c \in Cfgs |-> Doc(FALSE, Hourly, NeverExecuted, BoardLen, 2, <<>>, TRUE)]
    /\ executions = <<>>
    /\ runs = 0
    /\ inv = [i \in Invs |-> IdleFrame]
    /\ env = [runs |-> 0, overlap |-> FALSE, webs |-> {}, clock |-> {}]
    /\ probe \in { [fn |-> "scrape_ptt_articles", post_count |-> c, keywords |-> k,
                    web |-> w, done |-> FALSE,
                    result |-> [raised |-> FALSE, articles |-> <<>>]] :
                   c \in 1..MaxPostCount, k \in {<<>>, JobKeyword}, w \in FetchWebs }

NextFetch == EvalFetch

SpecFetch == InitFetch /\ [][NextFetch]_vars

----------------------------------------------------------------------------
(* What the properties speak about *)

\* a job of this invocation has returned, and no later job has started: the
\* trace is that of the job whose result is the last of execution_results
JobReturned(f) == f.pc \in {"job", "respond"} /\ f.execution_results # <<>>
LastResult(f) == f.execution_results[Len(f.execution_results)]
LastConfig(f) == f.due_configurations[f.j - 1]

EventsOf(trace, op) == {n \in DOMAIN trace : trace[n].op = op}
RecordsOf(id) == {n \in DOMAIN executions : executions[n].configurationId = id}

DueIds(f) == {f.checks[n].cfg : n \in {m \in DOMAIN f.checks : f.checks[m].r = "due"}}
SkipIds(f) == {f.checks[n].cfg : n \in {m \in DOMAIN f.checks : f.checks[m].r = "skip"}}

\* every message of the delivery has been acknowledged
Delivered(trace) ==
    /\ EventsOf(trace, "deliver") # {}
    /\ \A d \in EventsOf(trace, "deliver") : \A b \in 1..trace[d].n :
          \E n \in EventsOf(trace, "send") : trace[n].n = b /\ trace[n].r = "ok"

\* the job failed at some stage: before the fetch (no fetch was made), in the
\* fetch, or in the delivery (a rejection, or MAX_RETRIES transport failures
\* of one message)
JobFailed(trace) ==
    \/ EventsOf(trace, "fetch") = {}
    \/ \E n \in EventsOf(trace, "fetch") : trace[n].r = "raised"
    \/ \E n \in EventsOf(trace, "send") : trace[n].r = "rejected"
    \/ \E d \in EventsOf(trace, "deliver") : \E b \in 1..trace[d].n :
          Cardinality({n \in EventsOf(trace, "send") :
                          trace[n].n = b /\ trace[n].r = "transport"}) >= MAX_RETRIES

UnrecognizedType(schedule) ==
    schedule.k = "dict" /\ schedule.type \notin {"hourly", "daily", "custom"}

\* the schedule descriptors of the specification
IsHourly(schedule) == schedule.k = "dict" /\ schedule.type = "hourly"
IsDaily(schedule) == schedule.k = "dict" /\ schedule.type = "daily"
IsCustom(schedule) == schedule.k = "dict" /\ schedule.type = "custom"

\* a last-executed value: a timestamp, or a string that denotes an instant
HasLastExecuted(config) == config.lastExecuted.k \in {"ts", "iso", "isoz"}

\* a well-formed timeOfDay: HH:MM within the 24h range
WellFormedTime(time) ==
    /\ time.k = "str"
    /\ Len(time.fields) = 2
    /\ \A n \in 1..2 : time.fields[n].num
    /\ time.fields[1].v \in 0..23
    /\ time.fields[2].v \in 0..59

\* a timeOfDay that is present and is not well-formed
MalformedTime(time) == time.k # "absent" /\ ~WellFormedTime(time)

\* todayAt(h:m) at the instant t, and the Daily rule of the specification
TodayAt(t, h, m) == (t \div MinutesPerDay) * MinutesPerDay + h * MinutesPerHour + m
DailyRule(last, t, h, m) ==
    (last \div MinutesPerDay) < (t \div MinutesPerDay) /\ t >= TodayAt(t, h, m)

\* a job of the invocation is running, for due_configurations[j]
InJob(f) == f.pc \in {"fetch", "send", "update", "record"}
JobConfig(f) == f.due_configurations[f.j]

\* the time of day a daily schedule is evaluated with
TimeOfDay(schedule) == ParseScheduledTime(schedule.time)

\* format_articles_for_telegram has been applied to the probe
ChunkProbed == probe.fn = "format_articles_for_telegram" /\ probe.done

\* the article numbers of the messages, in message order
RECURSIVE EntriesOf(_)
EntriesOf(messages) ==
    IF messages = <<>> THEN <<>>
    ELSE messages[1].entries \o EntriesOf(Tail(messages))

\* send_telegram_messages is being applied to the probe
SendProbed == probe.fn = "send_telegram_messages"

\* the attempts made for message b, and whether one of them was acknowledged
AttemptsOf(trace, b) == {n \in EventsOf(trace, "send") : trace[n].n = b}
Acked(trace, b) == \E n \in AttemptsOf(trace, b) : trace[n].r = "ok"

\* the outcome of the k-th attempt of message b ("" when there is none)
AttemptOutcome(trace, b, k) ==
    LET at == {n \in AttemptsOf(trace, b) :
                  Cardinality({m \in AttemptsOf(trace, b) : m <= n}) = k} IN
    IF at = {} THEN "" ELSE trace[CHOOSE n \in at : TRUE].r

\* scrape_ptt_articles has been applied to the probe
FetchProbed == probe.fn = "scrape_ptt_articles" /\ probe.done

\* the page scrape_ptt_articles parses ("none" when it gets no page)
PageOf(web) ==
    IF web.first.kind = "gate" /\ web.consent THEN web.second ELSE web.first

\* the title contains one of the keywords, whatever the case
TitleHasKeyword(title, keywords) ==
    \E k \in 1..Len(keywords) : Contains(Lower(keywords[k]), Lower(title))

\* the entries of the page that are examined for a desired count
Examined(page, count) == SubSeq(page.entries, 1, Min(Len(page.entries), 2 * count))

\* the well-formed entries among es whose title passes the keyword filter
MatchingEntries(es, keywords) ==
    LET Keep(e) == e.kind = "ok" /\ (keywords = <<>> \/ TitleHasKeyword(e.title, keywords)) IN
    SelectSeq(es, Keep)

\* is_configuration_due has been applied to the probe
DueProbed == probe.fn = "is_configuration_due" /\ probe.done

----------------------------------------------------------------------------
(* main with a board behind the over-18 page: one invocation, the first    *)
(* configuration never executed, the others executed half an hour ago      *)

\* the board fails, or shows the over-18 page and after the consent step
\* the listing, the over-18 page again, or a failed request
GateWebs ==
    { [first |-> ErrorPage, consent |-> TRUE, second |-> NoSecond],
      [first |-> GatePage, consent |-> TRUE,
       second |-> Listing(<< Entry("ok", <<"j", "o", "b">>, 0) >>)],
      [first |-> GatePage, consent |-> TRUE, second |-> GatePage],
      [first |-> GatePage, consent |-> TRUE, second |-> ErrorPage],
      [first |-> GatePage, consent |-> FALSE, second |-> NoSecond] }

GateRepo ==
    [c \in Cfgs |->
        Doc(TRUE, Hourly, IF c = 1 THEN NeverExecuted ELSE Timestamp(StartTime - 30),
            BoardLen, 2, JobKeyword, TRUE)]

GateEnv == [runs |-> 1, overlap |-> FALSE, webs |-> GateWebs, clock |-> Clock]

InitGate ==
    /\ now = StartTime
    /\ repo = GateRepo
    /\ executions = <<>>
    /\ runs = 0
    /\ inv = [i \in Invs |-> IdleFrame]
    /\ env = GateEnv
    /\ probe = NoProbe

SpecGate == InitGate /\ [][Next]_vars

----------------------------------------------------------------------------
(* main triggered twice, one invocation after the other, half an hour and  *)
(* an hour after the start: an hourly configuration and one with an        *)
(* interval of half an hour, neither executed before                       *)

RerunClock == {StartTime + 30, StartTime + 60}

RerunRepo ==
    [c \in Cfgs |->
        Doc(TRUE, IF c = 1 THEN Hourly ELSE Custom(IntInterval(30)), NeverExecuted,
            BoardLen, 2, JobKeyword, TRUE)]

\* the board fails or lists one article
RerunWebs ==
    { [first |-> ErrorPage, consent |-> TRUE, second |-> NoSecond],
      [first |-> Listing(<< Entry("ok", <<"j", "o", "b">>, 0) >>),
       consent |-> TRUE, second |-> NoSecond] }

RerunEnv == [runs |-> 2, overlap |-> FALSE, webs |-> RerunWebs, clock |-> RerunClock]

InitRerun ==
    /\ now = StartTime
    /\ repo = RerunRepo
    /\ executions = <<>>
    /\ runs = 0
    /\ inv = [i \in Invs |-> IdleFrame]
    /\ env = RerunEnv
    /\ probe = NoProbe

SpecRerun == InitRerun /\ [][Next]_vars

----------------------------------------------------------------------------
(* C1 *)

\* C1 as stated: when a job has returned, whatever its outcome, its
\* configuration's last-executed timestamp and status/message have been
\* updated to the job's and exactly one ExecutionRecord of the
\* configuration has been appended.
C1_AlwaysRecorded ==
    \A i \in Invs : JobReturned(inv[i]) =>
        LET r == LastResult(inv[i])
            doc == repo[r.config_id] IN
        /\ doc.lastExecuted.k = "ts"
        /\ doc.lastExecuted.t \in inv[i].job.start_time..now
        /\ doc.lastExecutionStatus = r.status
        /\ doc.lastExecutionMessage = r.error_message
        /\ Cardinality(RecordsOf(r.config_id)) = 1

\* C1, amended: when a job has returned, whatever its outcome, exactly one
\* status update and exactly one ExecutionRecord append have been attempted
\* for its configuration; an update that went through left the job's
\* timestamp, status and message in the configuration, an append that went
\* through left exactly one ExecutionRecord of the configuration, holding the
\* job's result; a write that the repository refused left the configuration
\* as it was listed, or no ExecutionRecord.
C1_RecordingAttemptedOnce ==
    \A i \in Invs : JobReturned(inv[i]) =>
        LET f == inv[i]
            r == LastResult(f)
            doc == repo[r.config_id]
            updates == EventsOf(f.trace, "update")
            appends == EventsOf(f.trace, "append") IN
        /\ Cardinality(updates) = 1
        /\ Cardinality(appends) = 1
        /\ \A n \in updates \cup appends : f.trace[n].cfg = r.config_id
        /\ \A n \in updates :
              IF f.trace[n].r = "ok"
              THEN /\ doc.lastExecuted.k = "ts"
                   /\ doc.lastExecuted.t \in f.job.start_time..now
                   /\ doc.lastExecutionStatus = r.status
                   /\ doc.lastExecutionMessage = r.error_message
              ELSE /\ doc.lastExecuted = LastConfig(f).lastExecuted
                   /\ doc.lastExecutionStatus = None
        /\ \A n \in appends :
              IF f.trace[n].r = "ok"
              THEN /\ Cardinality(RecordsOf(r.config_id)) = 1
                   /\ \A m \in RecordsOf(r.config_id) :
                         /\ executions[m].status = r.status
                         /\ executions[m].articlesFound = r.articles_found
                         /\ executions[m].articlesSent = r.articles_sent
                         /\ executions[m].errorMessage = r.error_message
              ELSE RecordsOf(r.config_id) = {}

\* a job whose fetch raised has returned, with both writes through
C1_Witness ==
    \E i \in Invs :
        /\ JobReturned(inv[i])
        /\ LastResult(inv[i]).error_message = "PTT scraping error"
        /\ \A n \in EventsOf(inv[i].trace, "update") \cup EventsOf(inv[i].trace, "append") :
              inv[i].trace[n].r = "ok"
        /\ Cardinality(RecordsOf(LastResult(inv[i]).config_id)) = 1

----------------------------------------------------------------------------
(* C2 *)

\* C2: a configuration that fails the due check is skipped: it is not among
\* the due configurations, no job runs for it, nothing is fetched, delivered
\* or written for it, it has no result and no ExecutionRecord; every
\* ExecutionRecord is of a configuration the invocation evaluated as due.
C2_OnlyDueExecuted ==
    \A i \in Invs :
        LET f == inv[i]
            ran == DueIds(f) \ SkipIds(f) IN
        /\ \A n \in DOMAIN f.due_configurations : f.due_configurations[n].id \in ran
        /\ f.pc \in {"fetch", "send", "update", "record"} => f.job.config_id \in ran
        /\ \A n \in DOMAIN f.trace : f.trace[n].cfg \in ran
        /\ \A n \in DOMAIN f.execution_results : f.execution_results[n].config_id \in ran
        /\ \A c \in SkipIds(f) : RecordsOf(c) = {}
        /\ \A n \in DOMAIN executions :
              \E o \in Invs : executions[n].configurationId \in DueIds(inv[o])

\* one configuration was skipped and the other was executed and recorded
C2_Witness ==
    \E i \in Invs :
        /\ inv[i].pc = "respond"
        /\ SkipIds(inv[i]) # {}
        /\ \E c \in DueIds(inv[i]) : RecordsOf(c) # {}

----------------------------------------------------------------------------
(* C3 *)

\* C3: a job that fails at any stage ends with status error and a message;
\* the job loop goes on: while it runs, one result per job already started
\* and finished, and when it is over exactly one result per due
\* configuration, in the order the configurations were listed.
C3_FailuresIsolated ==
    \A i \in Invs :
        LET f == inv[i] IN
        /\ (JobReturned(f) /\ JobFailed(f.trace)) =>
              /\ LastResult(f).status = "error"
              /\ LastResult(f).error_message # None
        /\ f.pc \in {"job", "fetch", "send", "update", "record"} =>
              /\ f.j \in 1..Len(f.due_configurations)
              /\ Len(f.execution_results) = f.j - 1
        /\ (f.pc = "respond" \/ (f.pc = "done" /\ f.listed /\ f.configurations # <<>>)) =>
              /\ Len(f.execution_results) = Len(f.due_configurations)
              /\ \A n \in DOMAIN f.due_configurations :
                    f.execution_results[n].config_id = f.due_configurations[n].id
        /\ (f.pc = "done" /\ f.listed /\ f.configurations # <<>>) =>
              f.response.results = f.execution_results
        /\ \A a, b \in DOMAIN f.due_configurations :
              a < b => \E x, y \in DOMAIN f.configurations :
                          /\ x < y
                          /\ f.configurations[x].id = f.due_configurations[a].id
                          /\ f.configurations[y].id = f.due_configurations[b].id

\* the first job failed in the delivery and the second one succeeded
C3_Witness ==
    \E i \in Invs :
        /\ inv[i].pc = "respond"
        /\ Len(inv[i].execution_results) = 2
        /\ inv[i].execution_results[1].error_message = "Telegram delivery error"
        /\ inv[i].execution_results[2].status = "success"

----------------------------------------------------------------------------
(* C4 *)

\* C4: when the token retrieval or the listing of the active configurations
\* fails, main answers success = false, and the invocation has checked no
\* configuration, run no job, updated no configuration and appended no
\* ExecutionRecord.
C4_SystemicFailure ==
    \A i \in Invs : (inv[i].pc = "done" /\ ~inv[i].listed) =>
        /\ inv[i].response.success = FALSE
        /\ inv[i].response.results = <<>>
        /\ inv[i].checks = <<>>
        /\ inv[i].due_configurations = <<>>
        /\ inv[i].trace = <<>>
        /\ inv[i].execution_results = <<>>
        /\ executions = <<>>
        /\ \A c \in Cfgs : repo[c].lastExecutionStatus = None

\* the listing failed, with an active configuration that would have been due
C4_Witness ==
    \E i \in Invs :
        /\ inv[i].pc = "done"
        /\ inv[i].response.error = "Firestore error"
        /\ \E c \in Cfgs : repo[c].isActive /\ repo[c].lastExecuted.k = "none"

----------------------------------------------------------------------------
(* C5 *)

\* C5: when the token retrieval and the listing both succeed, main answers
\* success = true, whatever the jobs' outcomes.
C5_SuccessDespiteJobErrors ==
    \A i \in Invs : (inv[i].pc = "done" /\ inv[i].listed) => inv[i].response.success = TRUE

\* two jobs ran and both ended in error
C5_Witness ==
    \E i \in Invs :
        /\ inv[i].pc = "done"
        /\ inv[i].listed
        /\ Len(inv[i].response.results) = 2
        /\ \A n \in 1..2 : inv[i].response.results[n].status = "error"

----------------------------------------------------------------------------
(* C6 *)

----------------------------------------------------------------------------
(* C7 *)

\* C7: a job whose fetch returned no article never calls the delivery and
\* never sends, and returns status no_articles with articles_found = 0 and
\* articles_sent = 0.
C7_NoArticlesNoSend ==
    \A i \in Invs :
        LET f == inv[i] IN
        \A n \in EventsOf(f.trace, "fetch") :
            (f.trace[n].r = "ok" /\ f.trace[n].n = 0) =>
                /\ EventsOf(f.trace, "deliver") = {}
                /\ EventsOf(f.trace, "send") = {}
                /\ f.pc \notin {"fetch", "send"}
                /\ JobReturned(f) =>
                      /\ LastResult(f).status = "no_articles"
                      /\ LastResult(f).articles_found = 0
                      /\ LastResult(f).articles_sent = 0

\* a job returned after an empty fetch
C7_Witness ==
    \E i \in Invs :
        /\ JobReturned(inv[i])
        /\ \E n \in EventsOf(inv[i].trace, "fetch") :
              inv[i].trace[n].r = "ok" /\ inv[i].trace[n].n = 0

----------------------------------------------------------------------------
(* C8 *)

\* C8 as stated: every response of main carries total_articles_sent and
\* results, and total_articles_sent is the sum of the results' articles_sent.
C8_ResponseCarriesTotal ==
    \A i \in Invs : inv[i].pc = "done" =>
        LET response == inv[i].response IN
        /\ {"total_articles_sent", "results"} \subseteq response.keys
        /\ response.total_articles_sent =
              SumSeq([n \in 1..Len(response.results) |-> response.results[n].articles_sent])

----------------------------------------------------------------------------
(* C9 *)

\* C9 as stated: is_configuration_due answers true for every configuration
\* with no last-executed value, whatever its schedule.
C9_NeverExecutedIsDue ==
    (probe.done /\ probe.config.lastExecuted.k = "none") => probe.result = TRUE

----------------------------------------------------------------------------
(* C10 *)

\* C10 as stated: a configuration whose schedule has an unrecognized type is
\* never evaluated as due, and no job runs for it.
C10_UnrecognizedNeverDue ==
    \A i \in Invs : \A n \in DOMAIN inv[i].checks :
        UnrecognizedType(inv[i].configurations[n].schedule) =>
            /\ inv[i].checks[n].r = "skip"
            /\ \A m \in DOMAIN inv[i].due_configurations :
                  inv[i].due_configurations[m].id # inv[i].configurations[n].id

\* C10, amended: a configuration whose schedule has an unrecognized type and
\* which has a last-executed value is never evaluated as due, and the
\* invocation runs no job for it: nothing is fetched, delivered or written
\* for it, and it gets no result and no ExecutionRecord.
C10_UnrecognizedExecutedNeverDue ==
    \A i \in Invs : \A n \in DOMAIN inv[i].checks :
        LET f == inv[i]
            config == f.configurations[n] IN
        (UnrecognizedType(config.schedule) /\ config.lastExecuted.k # "none") =>
            /\ f.checks[n].cfg = config.id
            /\ f.checks[n].r = "skip"
            /\ \A m \in DOMAIN f.due_configurations : f.due_configurations[m].id # config.id
            /\ \A m \in DOMAIN f.trace : f.trace[m].cfg # config.id
            /\ \A m \in DOMAIN f.execution_results : f.execution_results[m].config_id # config.id
            /\ RecordsOf(config.id) = {}

\* such a configuration was skipped while the other one was executed
C10_Witness ==
    \E i \in Invs :
        /\ inv[i].pc = "respond"
        /\ inv[i].execution_results # <<>>
        /\ \E n \in DOMAIN inv[i].checks :
              /\ UnrecognizedType(inv[i].configurations[n].schedule)
              /\ inv[i].configurations[n].lastExecuted.k = "ts"
              /\ inv[i].checks[n].r = "skip"

----------------------------------------------------------------------------
(* C11 *)

\* C11 as stated: for an hourly configuration with a last-executed value,
\* is_configuration_due answers true exactly when 60 minutes or more have
\* passed since lastExecuted.
C11_HourlyDueIff ==
    (DueProbed /\ IsHourly(probe.config.schedule) /\ HasLastExecuted(probe.config)) =>
        (probe.result <=> probe.t >= probe.config.lastExecuted.t + 60)

----------------------------------------------------------------------------
(* C12 *)

\* C12: for a daily configuration with a last-executed value and a
\* well-formed time h:m, is_configuration_due answers true exactly when the
\* date of lastExecuted is before the date of now and now is at or after
\* today's date at h:m.
C12_DailyDueIff ==
    (DueProbed /\ IsDaily(probe.config.schedule) /\ HasLastExecuted(probe.config)
              /\ WellFormedTime(probe.config.schedule.time)) =>
        LET time == probe.config.schedule.time IN
        probe.result <=> DailyRule(probe.config.lastExecuted.t, probe.t,
                                   time.fields[1].v, time.fields[2].v)

\* a daily configuration last executed the day before is due exactly at its
\* time of day
C12_Witness ==
    /\ DueProbed
    /\ probe.config.schedule = Daily(HM(9, 0))
    /\ probe.config.lastExecuted = Timestamp(StartTime - Day)
    /\ probe.t = TodayAt(probe.t, 9, 0)
    /\ probe.result = TRUE

----------------------------------------------------------------------------
(* C13 *)

\* C13 as stated: for a custom configuration with a last-executed value and
\* an interval of m minutes (60 when absent), is_configuration_due answers
\* true exactly when m minutes or more have passed since lastExecuted.
C13_CustomDueIff ==
    (DueProbed /\ IsCustom(probe.config.schedule) /\ HasLastExecuted(probe.config)
              /\ probe.config.schedule.interval.k \in {"absent", "int"}) =>
        LET interval == probe.config.schedule.interval
            m == IF interval.k = "absent" THEN 60 ELSE interval.v IN
        probe.result <=> probe.t >= probe.config.lastExecuted.t + m

----------------------------------------------------------------------------
(* C14 *)

\* C14 as stated: for a daily configuration with a last-executed value, a
\* malformed time is evaluated as 09:00.
C14_MalformedTimeIsNine ==
    (DueProbed /\ IsDaily(probe.config.schedule) /\ HasLastExecuted(probe.config)
              /\ MalformedTime(probe.config.schedule.time)) =>
        (probe.result <=> DailyRule(probe.config.lastExecuted.t, probe.t, 9, 0))

----------------------------------------------------------------------------
(* C15 *)

\* C15: when the evaluation of a configuration fails inside
\* is_configuration_due, nothing is raised to main: the configuration is
\* reported not due, every configuration of the listing is still checked,
\* and the invocation ends with a success response that holds a result for
\* every configuration found due.
C15_DueCheckFailureSkips ==
    \A i \in Invs : \A n \in DOMAIN inv[i].checks :
        LET f == inv[i] IN
        DueBody(f.configurations[n], f.checks[n].n).raised =>
            /\ f.checks[n].r = "skip"
            /\ f.pc # "due" => Len(f.checks) = Len(f.configurations)
            /\ f.pc = "done" =>
                  /\ f.response.success
                  /\ \A m \in DOMAIN f.checks : f.checks[m].r = "due" =>
                        \E q \in DOMAIN f.response.results :
                            f.response.results[q].config_id = f.checks[m].cfg

\* an invocation has ended in which the check of one configuration failed
\* and the other configuration was executed
C15_Witness ==
    \E i \in Invs :
        LET f == inv[i] IN
        /\ f.pc = "done"
        /\ \E n \in DOMAIN f.checks :
              /\ DueBody(f.configurations[n], f.checks[n].n).raised
              /\ f.checks[n].r = "skip"
        /\ \E m \in DOMAIN f.checks :
              /\ f.checks[m].r = "due"
              /\ \E q \in DOMAIN f.response.results :
                    f.response.results[q].config_id = f.checks[m].cfg

----------------------------------------------------------------------------
(* C16 *)

\* C16: in invocations that do not overlap, the due check reads the
\* lastExecuted the repository holds, and a daily configuration whose
\* lastExecuted is a timestamp of the date of the check is not due: it is
\* not executed again on that date.
C16_DailyOncePerDay ==
    \A i \in Invs :
        LET f == inv[i] IN
        /\ f.pc = "due" =>
              \A n \in DOMAIN f.configurations :
                  f.configurations[n].lastExecuted = repo[f.configurations[n].id].lastExecuted
        /\ \A n \in DOMAIN f.checks :
              LET config == f.configurations[n] IN
              (/\ IsDaily(config.schedule)
               /\ config.lastExecuted.k = "ts"
               /\ DateOf(config.lastExecuted.t) = DateOf(f.checks[n].n)) =>
                  /\ f.checks[n].r = "skip"
                  /\ \A m \in DOMAIN f.due_configurations :
                        f.due_configurations[m].id # config.id

\* the second invocation of a day skips a daily configuration that the first
\* one executed and stamped
C16_Witness ==
    \E i \in Invs :
        LET f == inv[i] IN
        /\ f.run = 2
        /\ f.pc = "done"
        /\ \E n \in DOMAIN f.checks :
              LET config == f.configurations[n] IN
              /\ IsDaily(config.schedule)
              /\ config.lastExecuted.k = "ts"
              /\ DateOf(config.lastExecuted.t) = DateOf(f.checks[n].n)
              /\ f.checks[n].n >= TodayAt(f.checks[n].n, 9, 0)
              /\ f.checks[n].r = "skip"
              /\ RecordsOf(config.id) # {}

----------------------------------------------------------------------------
(* C17 *)

\* C17 as stated: every job of a daily configuration starts at a time of day
\* at or after the time of its schedule.
C17_DailyNotBeforeTime ==
    \A i \in Invs :
        LET f == inv[i] IN
        (InJob(f) /\ IsDaily(JobConfig(f).schedule)) =>
            LET hm == TimeOfDay(JobConfig(f).schedule) IN
            f.job.start_time >= TodayAt(f.job.start_time, hm.hour, hm.minute)

\* C17, amended: a daily configuration that has a last-executed value is
\* found due only at a time of day at or after the time of its schedule, and
\* every job of such a configuration follows, in the same invocation, a due
\* check that found it due.
C17_DailyDueNotBeforeTime ==
    \A i \in Invs :
        LET f == inv[i] IN
        /\ \A n \in DOMAIN f.checks :
              LET config == f.configurations[n]
                  hm == TimeOfDay(config.schedule) IN
              (IsDaily(config.schedule) /\ HasLastExecuted(config) /\ f.checks[n].r = "due") =>
                  f.checks[n].n >= TodayAt(f.checks[n].n, hm.hour, hm.minute)
        /\ (InJob(f) /\ IsDaily(JobConfig(f).schedule) /\ HasLastExecuted(JobConfig(f))) =>
              \E n \in DOMAIN f.checks :
                  /\ f.checks[n].cfg = f.job.config_id
                  /\ f.checks[n].r = "due"
                  /\ f.checks[n].n <= f.job.start_time

\* a daily configuration last executed the day before runs at its time of day
C17_Witness ==
    \E i \in Invs :
        LET f == inv[i] IN
        /\ InJob(f)
        /\ JobConfig(f).schedule = Daily(HM(9, 0))
        /\ JobConfig(f).lastExecuted = Timestamp(StartTime - Day)
        /\ f.job.start_time = TodayAt(f.job.start_time, 9, 0)

----------------------------------------------------------------------------
(* C18 *)

\* C18 as stated: no message format_articles_for_telegram returns is longer
\* than TELEGRAM_MESSAGE_MAX_LENGTH.
C18_BlocksWithinLimit ==
    ChunkProbed =>
        \A n \in DOMAIN probe.result : probe.result[n].len <= 4096

----------------------------------------------------------------------------
(* C19 *)

\* C19: for a non-empty article list, the entries of the returned messages,
\* read in message order, are the articles of the list, each once and in the
\* order of the list.
C19_EntriesReproduceInput ==
    (ChunkProbed /\ probe.articles # <<>>) =>
        EntriesOf(probe.result) = [n \in 1..Len(probe.articles) |-> n]

\* three articles were split over more than one message
C19_Witness ==
    /\ ChunkProbed
    /\ Len(probe.articles) = 3
    /\ Len(probe.result) >= 2
    /\ EntriesOf(probe.result) = <<1, 2, 3>>

----------------------------------------------------------------------------
(* C20 *)

\* C20: format_articles_for_telegram never returns an empty list; for an
\* empty article list it returns one message, the informational text with
\* the board name.
C20_NeverEmpty ==
    ChunkProbed =>
        /\ probe.result # <<>>
        /\ probe.articles = <<>> =>
              /\ Len(probe.result) = 1
              /\ probe.result[1].head = "info"
              /\ probe.result[1].entries = <<>>
              /\ probe.result[1].len = 45 + probe.board_len

\* the function was applied to an empty list
C20_Witness ==
    /\ ChunkProbed
    /\ probe.articles = <<>>
    /\ Len(probe.result) = 1

----------------------------------------------------------------------------
(* C21 *)

\* C21: send_telegram_messages attempts message b + 1 only after message b
\* has been acknowledged, so the acknowledged messages are at every moment
\* the first k of the list, for some k.
C21_BlocksInOrder ==
    SendProbed =>
        LET trace == probe.trace IN
        /\ \A n \in EventsOf(trace, "send") :
              trace[n].n > 1 =>
                  \E m \in AttemptsOf(trace, trace[n].n - 1) : m < n /\ trace[m].r = "ok"
        /\ \E k \in 0..probe.n_messages :
              {b \in 1..probe.n_messages : Acked(trace, b)} = 1..k

\* three messages were delivered, the second one at its second attempt
C21_Witness ==
    /\ SendProbed
    /\ probe.pc = "returned"
    /\ probe.n_messages = 3
    /\ Cardinality(AttemptsOf(probe.trace, 2)) = 2
    /\ \A b \in 1..3 : Acked(probe.trace, b)

----------------------------------------------------------------------------
(* C22 *)

\* C22: no message is attempted more than 3 times; when 3 attempts of a
\* message have failed at transport level the function has raised, no later
\* message has been attempted, and the messages before it are acknowledged.
C22_RetryCeiling ==
    SendProbed =>
        LET trace == probe.trace IN
        \A b \in 1..probe.n_messages :
            /\ Cardinality(AttemptsOf(trace, b)) <= 3
            /\ Cardinality({n \in AttemptsOf(trace, b) : trace[n].r = "transport"}) = 3 =>
                  /\ probe.pc = "raised"
                  /\ \A n \in EventsOf(trace, "send") : trace[n].n <= b
                  /\ \A a \in 1..(b - 1) : Acked(trace, a)
                  /\ ~Acked(trace, b)

\* the first message was delivered and the second one failed three times
C22_Witness ==
    /\ SendProbed
    /\ probe.n_messages = 3
    /\ probe.pc = "raised"
    /\ Acked(probe.trace, 1)
    /\ Cardinality({n \in AttemptsOf(probe.trace, 2) : probe.trace[n].r = "transport"}) = 3

----------------------------------------------------------------------------
(* C23 *)

\* C23 as stated: when the destination refuses a message (its answer is not
\* an acknowledgement), that message has been attempted exactly once, the
\* function has raised, and no later message is attempted.
C23_RejectionNotRetried ==
    SendProbed =>
        LET trace == probe.trace IN
        \A n \in EventsOf(trace, "send") :
            trace[n].r \in {"rejected", "status"} =>
                /\ Cardinality(AttemptsOf(trace, trace[n].n)) = 1
                /\ probe.pc = "raised"
                /\ \A m \in EventsOf(trace, "send") : trace[m].n <= trace[n].n

----------------------------------------------------------------------------
(* C24 *)

\* C24 as stated, on the failures of the repository's retry test as well (an
\* exception of the request that is not a RequestException): a message whose
\* first attempt fails at transport level is attempted again, and when that
\* second attempt is acknowledged the message has two attempts, one
\* acknowledgement, and the function returns if it was the last message.
C24_RetryThenAck ==
    SendProbed =>
        LET trace == probe.trace IN
        \A b \in 1..probe.n_messages :
            AttemptOutcome(trace, b, 1) \in {"transport", "other"} =>
                /\ ~(probe.pc = "raised" /\ Cardinality(AttemptsOf(trace, b)) = 1)
                /\ AttemptOutcome(trace, b, 2) = "ok" =>
                      /\ Cardinality(AttemptsOf(trace, b)) = 2
                      /\ b = probe.n_messages => probe.pc = "returned"

----------------------------------------------------------------------------
(* C25 *)

\* C25: the acknowledgement of a message that is not the last one is
\* followed by one pacing sleep of 1, and a pacing sleep follows nothing
\* else: not the acknowledgement of the last message, not a failed attempt.
C25_PacingBetweenBlocks ==
    SendProbed =>
        LET trace == probe.trace IN
        \A n \in DOMAIN trace :
            /\ (trace[n].op = "send" /\ trace[n].r = "ok" /\ trace[n].n < probe.n_messages) =>
                  /\ n + 1 \in DOMAIN trace
                  /\ trace[n + 1] = Event("sleep", 0, 1, "pace")
            /\ (trace[n].op = "sleep" /\ trace[n].r = "pace") =>
                  /\ n > 1
                  /\ trace[n - 1].op = "send"
                  /\ trace[n - 1].r = "ok"
                  /\ trace[n - 1].n < probe.n_messages
            /\ (trace[n].op = "sleep" /\ trace[n].r = "backoff") =>
                  /\ n > 1
                  /\ trace[n - 1].op = "send"
                  /\ trace[n - 1].r # "ok"

\* three messages were delivered with two pacing sleeps, after a retry
C25_Witness ==
    /\ SendProbed
    /\ probe.pc = "returned"
    /\ probe.n_messages = 3
    /\ Cardinality({n \in EventsOf(probe.trace, "sleep") : probe.trace[n].r = "pace"}) = 2
    /\ \E n \in EventsOf(probe.trace, "sleep") : probe.trace[n].r = "backoff"

----------------------------------------------------------------------------
(* C26 *)

----------------------------------------------------------------------------
(* C27 *)

----------------------------------------------------------------------------
(* C28 *)

\* C28 as stated: an entry without its title element, its title link or its
\* link target does not make scrape_ptt_articles raise, and the well-formed
\* matching entries around it are returned.
C28_MalformedSkipped ==
    (FetchProbed /\ PageOf(probe.web).kind = "listing") =>
        LET examined == Examined(PageOf(probe.web), probe.post_count)
            matching == MatchingEntries(examined, probe.keywords)
            expected == SubSeq(matching, 1, Min(probe.post_count, Len(matching))) IN
        /\ ~probe.result.raised
        /\ probe.result.articles = [n \in 1..Len(expected) |-> ArticleOf(expected[n])]

----------------------------------------------------------------------------
(* C29 *)

\* C29 as stated: when the page that follows the consent step is the
\* over-18 page again, scrape_ptt_articles raises; it returns no list.
C29_SecondGateIsFatal ==
    (FetchProbed /\ probe.web.first.kind = "gate" /\ probe.web.consent
                 /\ probe.web.second.kind = "gate") =>
        probe.result.raised

----------------------------------------------------------------------------
(* C30 *)

\* C30: within one due period, an invocation runs the job of a configuration
\* only when it listed the configuration before any invocation had written
\* its lastExecuted, and the configuration has at most one ExecutionRecord
\* for each invocation started; nothing else keeps two invocations apart
\* (the state of C30_Witness is reached).
C30_DoubleSendByOverlap ==
    /\ \A i \in Invs : \A m \in DOMAIN inv[i].due_configurations :
          inv[i].due_configurations[m].lastExecuted.k = "none"
    /\ \A c \in Cfgs :
          Cardinality(RecordsOf(c)) <= runs

\* two invocations found the same configuration due, each before the other
\* had written lastExecuted, both delivered it, and it has two
\* ExecutionRecords
C30_Witness ==
    \E i, k \in Invs : \E c \in Cfgs :
        /\ i # k
        /\ \A o \in {i, k} :
              /\ inv[o].pc = "done"
              /\ c \in DueIds(inv[o])
              /\ \E n \in DOMAIN inv[o].configurations :
                    /\ inv[o].configurations[n].id = c
                    /\ inv[o].configurations[n].lastExecuted.k = "none"
              /\ \E q \in DOMAIN inv[o].response.results :
                    /\ inv[o].response.results[q].config_id = c
                    /\ inv[o].response.results[q].status = "success"
                    /\ inv[o].response.results[q].articles_sent > 0
        /\ Cardinality(RecordsOf(c)) = 2
        /\ \A n \in RecordsOf(c) : executions[n].status = "success"

----------------------------------------------------------------------------
(* C31 *)

\* the query of lines 475-483 answered, and with no document
ListedNothing(f) == f.listed /\ f.configurations = <<>>

\* C31: an invocation whose query finds no active configuration has returned
\* success = true with an empty result list, and has made no due check, no
\* fetch, no delivery, no configuration update and no ExecutionRecord.
C31_NoActiveConfigurations ==
    \A i \in Invs : ListedNothing(inv[i]) =>
        /\ inv[i].pc = "done"
        /\ {"success", "results"} \subseteq inv[i].response.keys
        /\ inv[i].response.success
        /\ inv[i].response.results = <<>>
        /\ inv[i].checks = <<>>
        /\ inv[i].due_configurations = <<>>
        /\ inv[i].trace = <<>>
        /\ inv[i].execution_results = <<>>
        /\ executions = <<>>
        /\ \A c \in Cfgs : /\ repo[c].lastExecutionStatus = None
                           /\ repo[c].lastExecutionMessage = None

\* an invocation has returned after a query that found every document inactive
C31_Witness ==
    \E i \in Invs :
        /\ ListedNothing(inv[i])
        /\ inv[i].pc = "done"
        /\ \A c \in Cfgs : ~repo[c].isActive

----------------------------------------------------------------------------
(* C32 *)

\* the steps of one invocation from one position of main to another
StageSteps ==
    { <<"idle", "token">>, <<"done", "token">>, <<"token", "list">>, <<"token", "done">>,
      <<"list", "due">>, <<"list", "done">>,
      <<"due", "job">>, <<"due", "respond">>,
      <<"job", "fetch">>, <<"job", "update">>,
      <<"fetch", "send">>, <<"fetch", "update">>,
      <<"send", "update">>,
      <<"update", "record">>,
      <<"record", "job">>, <<"record", "respond">>,
      <<"respond", "done">> }

\* the events of the job in progress, by position in its trace
StagesInOrder(f) ==
    LET trace == f.trace
        fetches == EventsOf(trace, "fetch")
        delivers == EventsOf(trace, "deliver")
        sends == EventsOf(trace, "send")
        updates == EventsOf(trace, "update")
        appends == EventsOf(trace, "append") IN
    /\ fetches \subseteq {1}
    /\ \A d \in delivers : d = 2 /\ trace[1].op = "fetch" /\ trace[1].r = "ok" /\ trace[1].n >= 1
    /\ \A n \in sends : delivers # {} /\ \A d \in delivers : d < n
    /\ \A u \in updates : \A n \in fetches \cup delivers \cup sends : n < u
    /\ \A a \in appends : a = Len(trace) /\ \E u \in updates : u < a
    /\ Cardinality(updates) <= 1 /\ Cardinality(appends) <= 1

\* C32: in one invocation every listed configuration is found due or skipped
\* before any job starts; a job fetches, then delivers only after a fetch
\* that found articles, then records only when fetch and delivery have
\* ended; and the job of a due configuration starts only when the jobs of
\* the due configurations before it have returned from their recording.
C32_StagesInOrder ==
    /\ [](\A i \in Invs :
            LET f == inv[i] IN
            /\ f.pc \in {"job", "fetch", "send", "update", "record", "respond"} =>
                  /\ Len(f.checks) = Len(f.configurations)
                  /\ DueIds(f) = {f.due_configurations[n].id : n \in DOMAIN f.due_configurations}
            /\ InJob(f) =>
                  /\ Len(f.execution_results) = f.j - 1
                  /\ \A n \in 1..(f.j - 1) :
                        f.execution_results[n].config_id = f.due_configurations[n].id
                  /\ \A n \in DOMAIN f.trace : f.trace[n].cfg = JobConfig(f).id
                  /\ StagesInOrder(f)
            /\ f.pc = "send" => f.job.articles_found >= 1 /\ EventsOf(f.trace, "update") = {}
            /\ f.pc = "fetch" => f.trace = <<>>)
    /\ [][\A i \in Invs :
            inv[i].pc # inv'[i].pc => <<inv[i].pc, inv'[i].pc>> \in StageSteps]_vars

\* the second due configuration of an invocation is being delivered, and the
\* job of the first has returned
C32_Witness ==
    \E i \in Invs :
        /\ inv[i].pc = "send"
        /\ inv[i].j = 2
        /\ Len(inv[i].execution_results) = 1
        /\ Len(inv[i].checks) = 2
        /\ EventsOf(inv[i].trace, "send") # {}

----------------------------------------------------------------------------
(* C33 *)

\* the rank of attempt n among the attempts of its message
AttemptRank(trace, n) == Cardinality({m \in AttemptsOf(trace, trace[n].n) : m <= n})

\* the backoff sleeps made for message b, by position in the trace
BackoffsOf(trace, b) ==
    {n \in EventsOf(trace, "sleep") :
        /\ trace[n].r = "backoff"
        /\ n > 1 /\ trace[n - 1].op = "send" /\ trace[n - 1].n = b}

\* C33: the k-th failed transport attempt of a message, k = 1, 2, is followed
\* by a wait of min(BASE_DELAY * 2^k, MAX_DELAY), that is 2 and then 4; the
\* third is followed by no wait; the waits of one message never decrease and
\* never exceed MAX_DELAY, and a backoff wait follows nothing but a failed
\* transport attempt.
C33_BackoffDelays ==
    SendProbed =>
        LET trace == probe.trace IN
        /\ \A n \in EventsOf(trace, "send") :
              trace[n].r = "transport" =>
                  LET k == AttemptRank(trace, n) IN
                  IF k < MAX_RETRIES
                  THEN /\ n < Len(trace)
                       /\ trace[n + 1] = Event("sleep", 0, Min(BASE_DELAY * Pow2(k), MAX_DELAY),
                                               "backoff")
                       /\ trace[n + 1].n = IF k = 1 THEN 2 ELSE 4
                  ELSE n = Len(trace) /\ probe.pc = "raised"
        /\ \A n \in EventsOf(trace, "sleep") :
              trace[n].r = "backoff" =>
                  /\ n > 1 /\ trace[n - 1].op = "send" /\ trace[n - 1].r \in RequestExceptions
                  /\ trace[n].n <= MAX_DELAY
        /\ \A b \in 1..probe.n_messages :
              \A m, n \in BackoffsOf(trace, b) : m < n => trace[m].n <= trace[n].n

\* one message, three failed transport attempts: a wait of 2, a wait of 4,
\* and the raise
C33_Witness ==
    /\ SendProbed
    /\ probe.pc = "raised"
    /\ probe.trace = << Event("send", 0, 1, "transport"), Event("sleep", 0, 2, "backoff"),
                        Event("send", 0, 1, "transport"), Event("sleep", 0, 4, "backoff"),
                        Event("send", 0, 1, "transport") >>

----------------------------------------------------------------------------
(* C34 *)

\* the fields of a configuration document the recording step does not write
SettingsOf(doc) ==
    <<doc.isActive, doc.schedule, doc.pttBoard, doc.postCount, doc.keywords,
      doc.telegramChatId>>

\* C34: a step of the due check, of the job's start, of the fetch or of the
\* delivery leaves every configuration document as it is; a document changes
\* only in the recording step of a job of that configuration, which writes
\* its lastExecuted, lastExecutionStatus and lastExecutionMessage and
\* nothing else, and leaves the other documents alone.
C34_OnlyRecordingWrites ==
    [][/\ \A i \in Invs :
            inv[i].pc \in {"token", "list", "due", "job", "fetch", "send", "record", "respond"}
                /\ inv'[i] # inv[i] => repo' = repo
       /\ \A c \in Cfgs :
            repo'[c] # repo[c] =>
                /\ \E i \in Invs : /\ inv[i].pc = "update" /\ inv'[i].pc = "record"
                                   /\ inv[i].job.config_id = c
                                   /\ repo'[c].lastExecutionStatus = inv[i].job.status
                                   /\ repo'[c].lastExecutionMessage = inv[i].job.error_message
                /\ SettingsOf(repo'[c]) = SettingsOf(repo[c])
                /\ \A d \in Cfgs \ {c} : repo'[d] = repo[d]]_vars

\* a job has recorded its status in its own document while the document of
\* the other configuration this invocation checked is as it was listed
C34_Witness ==
    \E i \in Invs : \E c, d \in Cfgs :
        /\ c # d
        /\ inv[i].pc = "record"
        /\ inv[i].job.config_id = c
        /\ \E n \in EventsOf(inv[i].trace, "update") : inv[i].trace[n].r = "ok"
        /\ repo[c].lastExecuted = Timestamp(now)
        /\ repo[c].lastExecutionStatus = inv[i].job.status
        /\ d \in DueIds(inv[i]) \cup SkipIds(inv[i])
        /\ repo[d].lastExecutionStatus = None
        /\ \E n \in DOMAIN inv[i].configurations :
              /\ inv[i].configurations[n].id = d
              /\ inv[i].configurations[n].lastExecuted = repo[d].lastExecuted

----------------------------------------------------------------------------
(* C35 *)

\* the fetch fails: a request fails, the consent step fails, or the over-18
\* page is shown again after the consent step
FetchFails(web) ==
    \/ web.first.kind = "error"
    \/ /\ web.first.kind = "gate"
       /\ ~web.consent \/ web.second.kind \in {"error", "gate"}

\* C35: a fetch that fails ends the job with status error and the message of
\* a scraping error, never with no_articles or success, and a delivery that
\* raises ends the job with status error and the message of a delivery
\* error.
C35_FailuresEndInError ==
    [][\A i \in Invs :
          /\ \A web \in env.webs :
                inv[i].pc = "fetch" /\ FetchFails(web) /\ inv'[i] = FetchStep(inv[i], web) =>
                    /\ inv'[i].pc = "update"
                    /\ inv'[i].job.status = "error"
                    /\ inv'[i].job.error_message = "PTT scraping error"
          /\ \A outcome \in {"transport", "rejected"} :
                (/\ inv[i].pc = "send" /\ inv'[i] = SendStep(inv[i], outcome)
                 /\ SendAttempt(Len(inv[i].job.messages), inv[i].job.i,
                                inv[i].job.retry_count, outcome).raised) =>
                    /\ inv'[i].pc = "update"
                    /\ inv'[i].job.status = "error"
                    /\ inv'[i].job.error_message = "Telegram delivery error"]_vars

----------------------------------------------------------------------------
(* C36 *)

\* the relations between the fields of one job result
ResultShape(status, found, sent, message) ==
    /\ status \in {"success", "no_articles", "error"}
    /\ status = "success" <=> (sent = found /\ found >= 1)
    /\ status = "no_articles" => found = 0
    /\ status # "success" => sent = 0
    /\ message # None <=> status = "error"

\* C36: every result a job returns, and every ExecutionRecord, has a status
\* among success, no_articles and error; success exactly when articles_sent
\* = articles_found >= 1; no_articles only with articles_found = 0;
\* articles_sent = 0 unless success, whatever was delivered before a failure;
\* an error message exactly when the status is error; and the record of a
\* job carries the fields of its result.
C36_ResultShape ==
    /\ \A i \in Invs : \A n \in DOMAIN inv[i].execution_results :
          LET r == inv[i].execution_results[n] IN
          ResultShape(r.status, r.articles_found, r.articles_sent, r.error_message)
    /\ \A n \in DOMAIN executions :
          LET e == executions[n] IN
          ResultShape(e.status, e.articlesFound, e.articlesSent, e.errorMessage)
    /\ \A i \in Invs :
          (JobReturned(inv[i]) /\ inv[i].trace # <<>>
             /\ inv[i].trace[Len(inv[i].trace)] = Event("append", LastResult(inv[i]).config_id, 0, "ok")) =>
              /\ executions # <<>>
              /\ LET e == executions[Len(executions)]
                     r == LastResult(inv[i]) IN
                 <<e.configurationId, e.status, e.articlesFound, e.articlesSent, e.errorMessage>>
                     = <<r.config_id, r.status, r.articles_found, r.articles_sent, r.error_message>>

\* a job whose first message was acknowledged and whose delivery then raised
\* has returned status error with articles_sent = 0, and its record is written
C36_Witness ==
    \E i \in Invs :
        /\ JobReturned(inv[i])
        /\ \E n \in EventsOf(inv[i].trace, "send") : inv[i].trace[n].r = "ok"
        /\ LastResult(inv[i]).status = "error"
        /\ LastResult(inv[i]).articles_found >= 1
        /\ LastResult(inv[i]).articles_sent = 0
        /\ executions # <<>>
        /\ executions[Len(executions)].articlesSent = 0
        /\ executions[Len(executions)].status = "error"

----------------------------------------------------------------------------
(* C37 *)

\* the minutes an hourly or custom schedule waits after lastExecuted
IntervalOf(schedule) ==
    IF IsCustom(schedule) /\ schedule.interval.k = "int" THEN schedule.interval.v
    ELSE MinutesPerHour

\* the due checks of the invocation are done and none of its jobs has ended:
\* what the collections hold was written by earlier invocations
ChecksDone(f) ==
    /\ f.pc \in {"job", "respond"}
    /\ f.execution_results = <<>>
    /\ Len(f.checks) = Len(f.configurations)

\* C37 as stated: after a job of a configuration has ended with status error
\* (its ExecutionRecord tells the time), an invocation that checks the
\* configuration before a full interval has elapsed since then skips it.
C37_FailedRunNotRetried ==
    \A i \in Invs : ChecksDone(inv[i]) =>
        \A e \in DOMAIN executions : \A n \in DOMAIN inv[i].checks :
            (/\ executions[e].status = "error"
             /\ inv[i].checks[n].cfg = executions[e].configurationId
             /\ inv[i].checks[n].n <
                   executions[e].executedAt
                       + IntervalOf(repo[executions[e].configurationId].schedule))
                => inv[i].checks[n].r = "skip"

\* C37, amended: a failed job whose status update is written leaves
\* lastExecuted at the time of the attempt, and an invocation that checks
\* the configuration before a full interval has elapsed since then skips it.
C37_RecordedFailureNotRetried ==
    /\ \A c \in Cfgs :
          repo[c].lastExecutionStatus = "error" =>
              /\ repo[c].lastExecuted.k = "ts"
              /\ repo[c].lastExecuted.t <= now
              /\ repo[c].lastExecutionMessage # None
    /\ \A i \in Invs :
          (/\ inv[i].pc = "record"
           /\ inv[i].job.status = "error"
           /\ \E u \in EventsOf(inv[i].trace, "update") : inv[i].trace[u].r = "ok")
              => repo[inv[i].job.config_id].lastExecuted = Timestamp(now)
    /\ \A i \in Invs : ChecksDone(inv[i]) =>
          \A n \in DOMAIN inv[i].checks :
              LET c == inv[i].checks[n].cfg IN
              (/\ repo[c].lastExecutionStatus = "error"
               /\ inv[i].checks[n].n < repo[c].lastExecuted.t + IntervalOf(repo[c].schedule))
                  => inv[i].checks[n].r = "skip"

\* the hourly configuration failed in the first invocation, and the second
\* one, half an hour later, has skipped it
C37_Witness ==
    \E i \in Invs : \E n \in DOMAIN inv[i].checks :
        /\ ChecksDone(inv[i])
        /\ inv[i].run = 2
        /\ inv[i].checks[n].cfg = 1
        /\ inv[i].checks[n].r = "skip"
        /\ repo[1].lastExecutionStatus = "error"
        /\ repo[1].lastExecuted = Timestamp(StartTime)
        /\ inv[i].checks[n].n = StartTime + 30

----------------------------------------------------------------------------
(* C38 *)

\* C38: whether the status update is written or fails, the job goes on to
\* the ExecutionRecord with what it had; whether the record is written or
\* fails, the job returns the result made of its own fields and main goes
\* on to the next due configuration, or to the response after the last one;
\* a job that has returned has attempted both writes, once each.
C38_WriteFailuresSwallowed ==
    /\ [](\A i \in Invs :
            JobReturned(inv[i]) /\ inv[i].trace # <<>> =>
                /\ Cardinality(EventsOf(inv[i].trace, "update")) = 1
                /\ Cardinality(EventsOf(inv[i].trace, "append")) = 1
                /\ inv[i].pc = IF inv[i].j > Len(inv[i].due_configurations)
                               THEN "respond" ELSE "job")
    /\ [][\A i \in Invs :
            /\ inv[i].pc = "update" /\ inv'[i] # inv[i] =>
                  /\ inv'[i].pc = "record"
                  /\ inv'[i].job = inv[i].job
                  /\ inv'[i].execution_results = inv[i].execution_results
                  /\ inv'[i].j = inv[i].j
            /\ inv[i].pc = "record" /\ inv'[i] # inv[i] =>
                  /\ inv'[i].execution_results =
                        Append(inv[i].execution_results, JobResult(inv[i].job))
                  /\ inv'[i].j = inv[i].j + 1
                  /\ inv'[i].pc = IF inv[i].j = Len(inv[i].due_configurations)
                                  THEN "respond" ELSE "job"]_vars

\* both writes of the first job failed, its result is a success, and main
\* is about to start the job of the second due configuration
C38_Witness ==
    \E i \in Invs :
        /\ inv[i].pc = "job"
        /\ inv[i].j = 2
        /\ Len(inv[i].execution_results) = 1
        /\ inv[i].execution_results[1].status = "success"
        /\ \E u \in EventsOf(inv[i].trace, "update") : inv[i].trace[u].r = "failed"
        /\ \E a \in EventsOf(inv[i].trace, "append") : inv[i].trace[a].r = "failed"
        /\ executions = <<>>
        /\ repo[inv[i].execution_results[1].config_id].lastExecutionStatus = None

----------------------------------------------------------------------------
(* C39 *)

\* C39 as stated: for a non-empty article list, every message
\* format_articles_for_telegram returns holds the entry of at least one
\* article.
C39_NoHeaderOnlyBlock ==
    (ChunkProbed /\ probe.articles # <<>>) =>
        \A n \in DOMAIN probe.result : probe.result[n].entries # <<>>

----------------------------------------------------------------------------
(* C40 *)

\* send_telegram_messages has returned or raised
SendEnded == probe.pc \in {"returned", "raised"}

\* C40: send_telegram_messages ends whatever the requests answer; it makes at
\* most 3 attempts for each message, 3 times the number of messages in all,
\* and fewer as long as it has not ended; it returns exactly when every
\* message was acknowledged, and raises with a message that was not.
C40_DeliverTerminates ==
    /\ [](SendProbed =>
            LET trace == probe.trace
                blocks == 1..probe.n_messages IN
            /\ Cardinality(EventsOf(trace, "send")) <= MAX_RETRIES * probe.n_messages
            /\ \A b \in blocks : Cardinality(AttemptsOf(trace, b)) <= MAX_RETRIES
            /\ probe.pc = "loop" =>
                  Cardinality(EventsOf(trace, "send")) < MAX_RETRIES * probe.n_messages
            /\ probe.pc = "returned" <=> \A b \in blocks : Acked(trace, b)
            /\ probe.pc = "raised" => \E b \in blocks : ~Acked(trace, b))
    /\ <>SendEnded

\* two messages, each acknowledged at its third attempt: six attempts, and
\* the function has returned
C40_Witness ==
    /\ SendProbed
    /\ probe.n_messages = 2
    /\ probe.pc = "returned"
    /\ Cardinality(EventsOf(probe.trace, "send")) = 6
    /\ Acked(probe.trace, 1) /\ Acked(probe.trace, 2)

====
